---------------------------- MODULE Spec2Model ----------------------------
(***************************************************************************)
(* The project authorization cache of pkg/project/auth/cache.go:           *)
(* AuthorizationCache keeps, for every user and group, the set of          *)
(* namespaces a Reviewer says the subject may see.  synchronize is the     *)
(* single writer; List, AddWatcher and RemoveWatcher run beside it.        *)
(*                                                                         *)
(* Go strings that the code compares or measures (version tokens,          *)
(* lastState) are sequences of one-character strings; names and resource   *)
(* versions, which the code only compares for equality, are TLA+ strings,  *)
(* with "" the empty resource version.                                     *)
(***************************************************************************)
EXTENDS Integers, Sequences, FiniteSets, TLC

(***************************************************************************)
(* Bounds of the model.                                                    *)
(***************************************************************************)
\* environment events (upstream changes, reviewer changes, watcher
\* registrations) in one behaviour
MaxEvents == 1
\* ticks of the reconciler (calls of synchronize) in one behaviour
MaxCycles == 2
\* registered watchers
MaxWatchers == 1

Namespaces == {"a", "b"}
Users == {"alice", "bob"}
Groups == {"dev"}
ResourceVersions == {"1", "2"}
PolicyUIDs == {"p1"}
BindingUIDs == {"b1"}
Watchers == {"w1"}

\* a nil pointer (*reviewRecord, *reviewRequest)
Nil == [nil |-> TRUE]

\* the empty Go map / an absent optional map of a reviewRequest
EmptyMap == [x \in {} |-> ""]

(***************************************************************************)
(* Strings as sequences of characters.                                     *)
(***************************************************************************)
DigitChars == <<"0", "1", "2", "3", "4", "5", "6", "7", "8", "9">>

\* the decimal rendering of a resource-version counter
RECURSIVE Decimal(_)
Decimal(k) ==
    IF k < 10 THEN <<DigitChars[k + 1]>>
    ELSE Decimal(k \div 10) \o <<DigitChars[(k % 10) + 1]>>

\* strings.Join(parts, sep)
RECURSIVE Join(_, _)
Join(parts, sep) ==
    IF Len(parts) = 0 THEN <<>>
    ELSE IF Len(parts) = 1 THEN parts[1]
    ELSE parts[1] \o sep \o Join(Tail(parts), sep)

(***************************************************************************)
(* Records and stores.  A cache.Store is a function from its keys to its   *)
(* objects: a subject record store maps a subject to its namespaces set,   *)
(* the review record store maps a namespace to its reviewRecord.           *)
(***************************************************************************)
\* a reviewRequest, as the three passes of synchronize build them
NamespaceRequest(name, resourceVersion) ==
    [namespace |-> name, namespaceResourceVersion |-> resourceVersion,
     policyUIDToResourceVersion |-> EmptyMap,
     policyBindingUIDToResourceVersion |-> EmptyMap]

PolicyRequest(uid, policy) ==
    [namespace |-> policy.namespace, namespaceResourceVersion |-> "",
     policyUIDToResourceVersion |-> [k \in {uid} |-> policy.resourceVersion],
     policyBindingUIDToResourceVersion |-> EmptyMap]

PolicyBindingRequest(uid, policyBinding) ==
    [namespace |-> policyBinding.namespace, namespaceResourceVersion |-> "",
     policyUIDToResourceVersion |-> EmptyMap,
     policyBindingUIDToResourceVersion |->
         [k \in {uid} |-> policyBinding.resourceVersion]]

\* cache.NewStore(...): a store with no object
NewStore == [x \in {} |-> {}]

NewStores == [user |-> NewStore, group |-> NewStore, review |-> NewStore]

\* lastKnown: the review record of the namespace, or nil
lastKnown(reviewRecordStore, namespace) ==
    IF namespace \in DOMAIN reviewRecordStore
    THEN reviewRecordStore[namespace]
    ELSE Nil

\* every (k, v) of the request map is in the stored map with the same v
MapSatisfied(requested, stored) ==
    \A k \in DOMAIN requested :
        k \in DOMAIN stored /\ requested[k] = stored[k]

\* a skipReview without the loop over the policy bindings of the request
skipReview_IgnoresBindings(request, lastKnownValue) ==
    IF request = Nil THEN TRUE
    ELSE IF lastKnownValue = Nil THEN FALSE
    ELSE IF request.namespace # lastKnownValue.namespace THEN FALSE
    ELSE IF /\ request.namespaceResourceVersion # ""
            /\ request.namespaceResourceVersion #
                   lastKnownValue.namespaceResourceVersion
         THEN FALSE
    ELSE IF ~MapSatisfied(request.policyUIDToResourceVersion,
                          lastKnownValue.policyUIDToResourceVersion)
         THEN FALSE
    ELSE TRUE

\* skipReview: the request is satisfied by lastKnownValue
skipReview(request, lastKnownValue) ==
    IF request = Nil THEN TRUE
    ELSE IF lastKnownValue = Nil THEN FALSE
    ELSE IF request.namespace # lastKnownValue.namespace THEN FALSE
    ELSE IF /\ request.namespaceResourceVersion # ""
            /\ request.namespaceResourceVersion #
                   lastKnownValue.namespaceResourceVersion
         THEN FALSE
    ELSE IF ~MapSatisfied(request.policyBindingUIDToResourceVersion,
                          lastKnownValue.policyBindingUIDToResourceVersion)
         THEN FALSE
    ELSE IF ~MapSatisfied(request.policyUIDToResourceVersion,
                          lastKnownValue.policyUIDToResourceVersion)
         THEN FALSE
    ELSE TRUE

\* a faulty deleteNamespaceFromSubjects, which leaves the namespace in
\* the records
deleteNamespaceFromSubjects_Forgets(subjectRecordStore, subjects, namespace) ==
    subjectRecordStore

\* a faulty deleteNamespaceFromSubjects, which keeps a record left with no
\* namespace
deleteNamespaceFromSubjects_KeepsEmpty(subjectRecordStore, subjects, namespace) ==
    [s \in DOMAIN subjectRecordStore |->
        IF s \in subjects
        THEN subjectRecordStore[s] \ {namespace}
        ELSE subjectRecordStore[s]]

\* deleteNamespaceFromSubjects: the namespace leaves the record of each
\* subject that has one; a record left with no namespace is deleted
deleteNamespaceFromSubjects(subjectRecordStore, subjects, namespace) ==
    LET emptied == {s \in subjects \cap DOMAIN subjectRecordStore :
                       subjectRecordStore[s] \ {namespace} = {}}
    IN [s \in (DOMAIN subjectRecordStore) \ emptied |->
           IF s \in subjects
           THEN subjectRecordStore[s] \ {namespace}
           ELSE subjectRecordStore[s]]

\* a faulty addSubjectsToNamespace, which creates no record
addSubjectsToNamespace_ExistingOnly(subjectRecordStore, subjects, namespace) ==
    [s \in DOMAIN subjectRecordStore |->
        IF s \in subjects
        THEN subjectRecordStore[s] \cup {namespace}
        ELSE subjectRecordStore[s]]

\* addSubjectsToNamespace: each subject gets a record if it has none, and
\* the namespace is inserted in it
addSubjectsToNamespace(subjectRecordStore, subjects, namespace) ==
    [s \in (DOMAIN subjectRecordStore) \cup subjects |->
        IF s \in subjects
        THEN (IF s \in DOMAIN subjectRecordStore
              THEN subjectRecordStore[s] ELSE {}) \cup {namespace}
        ELSE subjectRecordStore[s]]

\* m overlaid with the entries of over
Overlay(m, over) ==
    [k \in (DOMAIN m) \cup (DOMAIN over) |->
        IF k \in DOMAIN over THEN over[k] ELSE m[k]]

\* the reviewRecord cacheReviewRecord builds
newReviewRecord(request, lastKnownValue, review) ==
    LET kept == IF lastKnownValue # Nil
                THEN lastKnownValue
                ELSE [namespaceResourceVersion |-> "",
                      policyUIDToResourceVersion |-> EmptyMap,
                      policyBindingUIDToResourceVersion |-> EmptyMap]
    IN [namespace |-> request.namespace,
        namespaceResourceVersion |->
            IF request.namespaceResourceVersion # ""
            THEN request.namespaceResourceVersion
            ELSE kept.namespaceResourceVersion,
        policyUIDToResourceVersion |->
            Overlay(kept.policyUIDToResourceVersion,
                    request.policyUIDToResourceVersion),
        policyBindingUIDToResourceVersion |->
            Overlay(kept.policyBindingUIDToResourceVersion,
                    request.policyBindingUIDToResourceVersion),
        users |-> review.users,
        groups |-> review.groups]

\* a cacheReviewRecord that builds the record from the request alone
cacheReviewRecord_Forgets(request, lastKnownValue, review, reviewRecordStore) ==
    [n \in (DOMAIN reviewRecordStore) \cup {request.namespace} |->
        IF n = request.namespace
        THEN newReviewRecord(request, Nil, review)
        ELSE reviewRecordStore[n]]

\* cacheReviewRecord: reviewRecordStore.Add of the new record
cacheReviewRecord(request, lastKnownValue, review, reviewRecordStore) ==
    [n \in (DOMAIN reviewRecordStore) \cup {request.namespace} |->
        IF n = request.namespace
        THEN newReviewRecord(request, lastKnownValue, review)
        ELSE reviewRecordStore[n]]

\* notifyWatchers going over the watcher list twice
notifyWatchers_Twice(watcherList, namespace, users, groups) ==
    [i \in 1..(2 * Len(watcherList)) |->
        [watcher |-> watcherList[((i - 1) % Len(watcherList)) + 1],
         namespace |-> namespace, users |-> users, groups |-> groups]]

\* notifyWatchers: one GroupMembershipChanged call per entry of the watcher
\* list, in list order
notifyWatchers(watcherList, namespace, users, groups) ==
    [i \in 1..Len(watcherList) |->
        [watcher |-> watcherList[i], namespace |-> namespace,
         users |-> users, groups |-> groups]]

\* no GroupMembershipChanged call
NoCalls == <<>>

\* syncRequest without the early return on the Reviewer's error: the review
\* is recorded and notified all the same
syncRequest_RecordsFailedReview(request, stores, review, reviewErr, watcherList) ==
    LET lastKnownValue == lastKnown(stores.review, request.namespace)
        namespace == request.namespace
        usersToRemove ==
            IF lastKnownValue # Nil
            THEN lastKnownValue.users \ review.users ELSE {}
        groupsToRemove ==
            IF lastKnownValue # Nil
            THEN lastKnownValue.groups \ review.groups ELSE {}
    IN IF skipReview(request, lastKnownValue)
       THEN [stores |-> stores, reviewed |-> FALSE, calls |-> NoCalls,
             err |-> ""]
       ELSE [stores |->
                [user |-> addSubjectsToNamespace(
                              deleteNamespaceFromSubjects(
                                  stores.user, usersToRemove, namespace),
                              review.users, namespace),
                 group |-> addSubjectsToNamespace(
                               deleteNamespaceFromSubjects(
                                   stores.group, groupsToRemove, namespace),
                               review.groups, namespace),
                 review |-> cacheReviewRecord(request, lastKnownValue,
                                              review, stores.review)],
             reviewed |-> TRUE,
             calls |-> notifyWatchers(watcherList, namespace,
                                      review.users, review.groups),
             err |-> IF reviewErr THEN "review" ELSE review.evaluationError]

\* syncRequest without the two deleteNamespaceFromSubjects calls: the
\* subjects the review no longer names keep the namespace
syncRequest_KeepsRevoked(request, stores, review, reviewErr, watcherList) ==
    LET lastKnownValue == lastKnown(stores.review, request.namespace)
        namespace == request.namespace
    IN IF skipReview(request, lastKnownValue)
       THEN [stores |-> stores, reviewed |-> FALSE, calls |-> NoCalls,
             err |-> ""]
       ELSE IF reviewErr
       THEN [stores |-> stores, reviewed |-> TRUE, calls |-> NoCalls,
             err |-> "review"]
       ELSE [stores |->
                [user |-> addSubjectsToNamespace(stores.user, review.users,
                                                 namespace),
                 group |-> addSubjectsToNamespace(stores.group,
                                                  review.groups, namespace),
                 review |-> cacheReviewRecord(request, lastKnownValue,
                                              review, stores.review)],
             reviewed |-> TRUE,
             calls |-> notifyWatchers(watcherList, namespace,
                                      review.users, review.groups),
             err |-> review.evaluationError]

\* syncRequest returning the evaluation error before the stores are touched
syncRequest_ReturnsBeforeCommit(request, stores, review, reviewErr, watcherList) ==
    LET lastKnownValue == lastKnown(stores.review, request.namespace)
        namespace == request.namespace
        usersToRemove ==
            IF lastKnownValue # Nil
            THEN lastKnownValue.users \ review.users ELSE {}
        groupsToRemove ==
            IF lastKnownValue # Nil
            THEN lastKnownValue.groups \ review.groups ELSE {}
    IN IF skipReview(request, lastKnownValue)
       THEN [stores |-> stores, reviewed |-> FALSE, calls |-> NoCalls,
             err |-> ""]
       ELSE IF reviewErr
       THEN [stores |-> stores, reviewed |-> TRUE, calls |-> NoCalls,
             err |-> "review"]
       ELSE IF review.evaluationError # ""
       THEN [stores |-> stores, reviewed |-> TRUE, calls |-> NoCalls,
             err |-> review.evaluationError]
       ELSE [stores |->
                [user |-> addSubjectsToNamespace(
                              deleteNamespaceFromSubjects(
                                  stores.user, usersToRemove, namespace),
                              review.users, namespace),
                 group |-> addSubjectsToNamespace(
                               deleteNamespaceFromSubjects(
                                   stores.group, groupsToRemove, namespace),
                               review.groups, namespace),
                 review |-> cacheReviewRecord(request, lastKnownValue,
                                              review, stores.review)],
             reviewed |-> TRUE,
             calls |-> notifyWatchers(watcherList, namespace,
                                      review.users, review.groups),
             err |-> ""]

\* syncRequest on the given stores.  review is what Reviewer.Review returns
\* for the namespace and reviewErr whether it returns an error instead.
\* The result: the stores afterwards, whether the Reviewer was called, the
\* GroupMembershipChanged calls made and the error returned ("" for nil).
syncRequest(request, stores, review, reviewErr, watcherList) ==
    LET lastKnownValue == lastKnown(stores.review, request.namespace)
        namespace == request.namespace
        usersToRemove ==
            IF lastKnownValue # Nil
            THEN lastKnownValue.users \ review.users ELSE {}
        groupsToRemove ==
            IF lastKnownValue # Nil
            THEN lastKnownValue.groups \ review.groups ELSE {}
    IN IF skipReview(request, lastKnownValue)
       THEN [stores |-> stores, reviewed |-> FALSE, calls |-> NoCalls,
             err |-> ""]
       ELSE IF reviewErr
       THEN [stores |-> stores, reviewed |-> TRUE, calls |-> NoCalls,
             err |-> "review"]
       ELSE [stores |->
                [user |-> addSubjectsToNamespace(
                              deleteNamespaceFromSubjects(
                                  stores.user, usersToRemove, namespace),
                              review.users, namespace),
                 group |-> addSubjectsToNamespace(
                               deleteNamespaceFromSubjects(
                                   stores.group, groupsToRemove, namespace),
                               review.groups, namespace),
                 review |-> cacheReviewRecord(request, lastKnownValue,
                                              review, stores.review)],
             reviewed |-> TRUE,
             calls |-> notifyWatchers(watcherList, namespace,
                                      review.users, review.groups),
             err |-> review.evaluationError]

\* the review records purgeDeletedNamespaces removes: those of a namespace
\* that is not in newNamespaces
PurgedRecords(newNamespaces, reviewRecordStore) ==
    {n \in DOMAIN reviewRecordStore : n \notin newNamespaces}

\* deleteNamespaceFromSubjects for each namespace of a set, with the
\* subjects its review record names
RECURSIVE PurgeSubjects(_, _, _, _)
PurgeSubjects(subjectRecordStore, reviewRecordStore, field, namespaces) ==
    IF namespaces = {} THEN subjectRecordStore
    ELSE LET n == CHOOSE x \in namespaces : TRUE
         IN PurgeSubjects(
                deleteNamespaceFromSubjects(
                    subjectRecordStore, reviewRecordStore[n][field], n),
                reviewRecordStore, field, namespaces \ {n})

\* a purge that notifies of every namespace known before, listed or not
PurgeNotified_AllKnown(oldNamespaces, newNamespaces) == oldNamespaces

\* the namespaces purgeDeletedNamespaces notifies the watchers of
PurgeNotified(oldNamespaces, newNamespaces) == oldNamespaces \ newNamespaces

\* a faulty purgeDeletedNamespaces, which deletes the review records and
\* leaves the subject records alone
purgeDeletedNamespaces_KeepsSubjects(newNamespaces, stores) ==
    LET gone == PurgedRecords(newNamespaces, stores.review)
    IN [user |-> stores.user,
        group |-> stores.group,
        review |-> [n \in (DOMAIN stores.review) \ gone |-> stores.review[n]]]

\* a faulty purgeDeletedNamespaces, which takes the namespace from the
\* subject records and leaves its review record in the store
purgeDeletedNamespaces_KeepsRecords(newNamespaces, stores) ==
    LET gone == PurgedRecords(newNamespaces, stores.review)
    IN [user |-> PurgeSubjects(stores.user, stores.review, "users", gone),
        group |-> PurgeSubjects(stores.group, stores.review, "groups", gone),
        review |-> stores.review]

\* the stores after purgeDeletedNamespaces
purgeDeletedNamespaces(newNamespaces, stores) ==
    LET gone == PurgedRecords(newNamespaces, stores.review)
    IN [user |-> PurgeSubjects(stores.user, stores.review, "users", gone),
        group |-> PurgeSubjects(stores.group, stores.review, "groups", gone),
        review |-> [n \in (DOMAIN stores.review) \ gone |-> stores.review[n]]]

\* the two sets differ, as invalidateCache tests it
VersionsDiffer(stored, listed) ==
    \/ Cardinality(stored) # Cardinality(listed)
    \/ ~(listed \subseteq stored)

\* invalidateCache.  temporaryVersions is one map: when the cluster policy
\* versions changed, ac.clusterPolicyResourceVersions is that map, and the
\* map is then emptied and filled with the cluster binding versions.
invalidateCache(storedPolicy, storedBinding, listedPolicy, policyErr, listedBinding, bindingErr) ==
    IF policyErr
    THEN [invalidateCache |-> FALSE,
          clusterPolicyResourceVersions |-> storedPolicy,
          clusterBindingResourceVersions |-> storedBinding]
    ELSE LET policyChanged == VersionsDiffer(storedPolicy, listedPolicy)
         IN IF bindingErr
            THEN [invalidateCache |-> policyChanged,
                  clusterPolicyResourceVersions |->
                      IF policyChanged THEN listedPolicy ELSE storedPolicy,
                  clusterBindingResourceVersions |-> storedBinding]
            ELSE LET temporaryVersions == listedBinding
                     bindingChanged ==
                         VersionsDiffer(storedBinding, temporaryVersions)
                 IN [invalidateCache |-> policyChanged \/ bindingChanged,
                     clusterPolicyResourceVersions |->
                         IF policyChanged THEN temporaryVersions
                         ELSE storedPolicy,
                     clusterBindingResourceVersions |->
                         IF bindingChanged THEN temporaryVersions
                         ELSE storedBinding]

\* unionLastSyncResourceVersioner.LastSyncResourceVersion
unionLastSyncResourceVersion(tokens) == Join(tokens, <<>>)

\* a statelessSkipSynchronizer.SkipSynchronize that joins the tokens with no
\* separator
statelessSkipSynchronize_NoSeparator(prevState, tokens) ==
    LET currentState == Join(tokens, <<>>)
    IN <<currentState = prevState, currentState>>

\* a faulty statelessSkipSynchronizer.SkipSynchronize, which never skips
statelessSkipSynchronize_NeverSkips(prevState, tokens) ==
    <<FALSE, Join(tokens, <<",">>)>>

\* statelessSkipSynchronizer.SkipSynchronize: <<skip, currentState>>
statelessSkipSynchronize(prevState, tokens) ==
    LET currentState == Join(tokens, <<",">>)
    IN <<currentState = prevState, currentState>>

\* a faulty neverSkipSynchronizer.SkipSynchronize, which returns the current
\* token
neverSkipSynchronize_ReturnsToken(prevState, tokens) ==
    <<FALSE, Join(tokens, <<",">>)>>

\* neverSkipSynchronizer.SkipSynchronize
neverSkipSynchronize(prevState, tokens) == <<FALSE, <<>>>>

\* ac.skip.SkipSynchronize
SkipSynchronize(skipper, prevState, tokens) ==
    IF skipper = "stateless"
    THEN statelessSkipSynchronize(prevState, tokens)
    ELSE neverSkipSynchronize(prevState, tokens)

\* ReadyForAccess, of a lastState
ReadyForAccessOf(state) == Len(state) > 0

(***************************************************************************)
(* The state.                                                              *)
(***************************************************************************)
VARIABLES
    \* the upstream: the namespace informer's store, the namespaced policy
    \* and policy binding listers, the resource versions of the cluster
    \* policies and cluster policy bindings, and the number of changes each
    \* source has seen, which its LastSyncResourceVersion renders
    namespaceStore, policies, policyBindings,
    clusterPolicies, clusterPolicyBindings, versions,
    \* the Reviewer: its answer for each namespace, the namespaces whose
    \* Review returns an error, and the listers whose List returns an error
    reviewer, failing, listerErrors,
    \* the fields of AuthorizationCache
    allKnownNamespaces,
    reviewRecordStore, userSubjectRecordStore, groupSubjectRecordStore,
    clusterBindingResourceVersions, clusterPolicyResourceVersions,
    skip, lastState, watchers,
    \* synchronize: where it is, its locals, the freshly built stores of a
    \* full rebuild and the requests of the current pass not yet dispatched
    pc, currentState, invalidate, fresh, todo, newKnownNamespaces,
    \* observations: Run was called; events and ticks so far; in the current
    \* tick, the namespaces the Reviewer was asked about, those it failed
    \* for, whether the working stores were empty when it began, and the
    \* GroupMembershipChanged calls each watcher got per namespace; the
    \* namespaces the Reviewer failed for in the tick before; and, of the
    \* last step of synchronize, the calls, the error and, when it was a
    \* syncHandler call or the purge, the stores it found
    running, events, cycles,
    reviewedInTick, failedInTick, startedEmpty, received,
    failedBefore, calls, lastErr, before,
    \* the working stores of the current cycle as they would be had every
    \* Review of the cycle returned the Reviewer's answer and no error
    unfailed,
    \* the stores an incremental cycle would have built had it been a full
    \* rebuild: the same requests and the same purge, on fresh stores
    rebuilt,
    \* the cluster policy and cluster policy binding resource versions that
    \* invalidateCache listed in the most recent cycle
    listedBefore,
    \* a List call in progress: where it is, what it read from the user and
    \* group stores and the generation of each handle it read through
    list,
    \* the generation of each live store handle: the number of times the
    \* field was assigned since construction
    generation,
    \* the syncRequest in progress when synchronize is followed statement by
    \* statement: the store operations it has still to perform
    sync,
    \* the call a unit specification applied, with its arguments and result
    call,
    \* what each source's LastSyncResourceVersion was when the cycle in
    \* progress began and when the last completed cycle began (nil before
    \* the first), where the sources' tokens are followed; and the users and
    \* groups of the last GroupMembershipChanged call each watcher got for
    \* each namespace (nil before the first), where the watchers are followed
    observed

upstreamVars == <<namespaceStore, policies, policyBindings, clusterPolicies,
                  clusterPolicyBindings, versions>>
reviewerVars == <<reviewer, failing, listerErrors>>
liveStoreVars == <<reviewRecordStore, userSubjectRecordStore,
                   groupSubjectRecordStore>>
clusterVersionVars == <<clusterBindingResourceVersions,
                        clusterPolicyResourceVersions>>
cacheVars == <<allKnownNamespaces, liveStoreVars, clusterVersionVars,
               skip, lastState, watchers>>
cycleVars == <<pc, currentState, invalidate, fresh, todo, newKnownNamespaces>>
tickVars == <<reviewedInTick, failedInTick, startedEmpty, received,
              failedBefore>>
\* what only the statement-level and the unit specifications change
auxVars == <<list, generation, sync, call, observed>>
\* what the reconciler, the registry and the environment change
programVars == <<upstreamVars, reviewerVars, cacheVars, cycleVars, running,
                 events, cycles, tickVars, calls, lastErr, before, unfailed,
                 rebuilt, listedBefore>>
vars == <<programVars, auxVars>>

\* the answers the Reviewer may give for a namespace
Reviews ==
    {[users |-> {}, groups |-> {}, evaluationError |-> ""],
     [users |-> {"alice"}, groups |-> {"dev"}, evaluationError |-> ""],
     [users |-> {"alice", "bob"}, groups |-> {}, evaluationError |-> ""],
     [users |-> {"bob"}, groups |-> {}, evaluationError |-> "denied"]}

Listers == {"clusterPolicies", "clusterPolicyBindings", "policies",
            "policyBindings"}

\* the upstream and the Reviewer the cache may be constructed over
InitNamespaceStores ==
    {[n \in D |-> "1"] : D \in {Namespaces, {"a"}}}

InitPolicies ==
    {EmptyMap, [u \in {"p1"} |-> [namespace |-> "b", resourceVersion |-> "1"]]}

InitPolicyBindings ==
    {EmptyMap, [u \in {"b1"} |-> [namespace |-> "a", resourceVersion |-> "1"]]}

InitReviewers ==
    {[n \in Namespaces |->
         IF n = "a"
         THEN [users |-> {"alice"}, groups |-> {"dev"}, evaluationError |-> ""]
         ELSE [users |-> {"alice", "bob"}, groups |-> {},
               evaluationError |-> ""]]}

ZeroReceived == [w \in Watchers |-> [n \in Namespaces |-> 0]]

\* the stores the AuthorizationCache reads through its fields
LiveStores ==
    [user |-> userSubjectRecordStore, group |-> groupSubjectRecordStore,
     review |-> reviewRecordStore]

\* the stores the locals of synchronize refer to: the fresh ones in a full
\* rebuild, the live ones otherwise
WorkingStores == IF invalidate THEN fresh ELSE LiveStores

\* LastSyncResourceVersion of each source
Token(source) == Decimal(versions[source])

\* ac.lastSyncResourceVersioner and ac.policyLastSyncResourceVersioner
VersionTokens ==
    <<Token("namespaces"),
      unionLastSyncResourceVersion(
          <<Token("clusterPolicies"), Token("clusterPolicyBindings"),
            Token("policies"), Token("policyBindings")>>)>>

\* ReadyForAccess
ReadyForAccess == ReadyForAccessOf(lastState)

\* no List call in progress
NoList == [pc |-> "idle"]

\* no syncRequest in progress
NoSync == [pc |-> "idle"]

\* no call applied
NoCall == [op |-> "none"]

\* no cycle begun, none completed, no watcher notified
NoneObserved ==
    [begun |-> Nil, completed |-> Nil,
     notified |-> [w \in Watchers |-> [n \in Namespaces |-> Nil]]]

\* NewAuthorizationCache
Init ==
    /\ namespaceStore \in InitNamespaceStores
    /\ policies \in InitPolicies
    /\ policyBindings \in InitPolicyBindings
    /\ clusterPolicies \in {{}, {"1"}}
    /\ clusterPolicyBindings \in {{}, {"1"}}
    /\ versions = [src \in {"namespaces"} \cup Listers |-> 1]
    /\ reviewer \in InitReviewers
    /\ failing \in {{}, {"a"}}
    /\ listerErrors = {}
    /\ allKnownNamespaces = {}
    /\ reviewRecordStore = NewStore
    /\ userSubjectRecordStore = NewStore
    /\ groupSubjectRecordStore = NewStore
    /\ clusterBindingResourceVersions = {}
    /\ clusterPolicyResourceVersions = {}
    /\ skip = "never"
    /\ lastState = <<>>
    /\ watchers = <<>>
    /\ pc = "idle"
    /\ currentState = <<>>
    /\ invalidate = FALSE
    /\ fresh = NewStores
    /\ todo = {}
    /\ newKnownNamespaces = {}
    /\ running = FALSE
    /\ events = 0
    /\ cycles = 0
    /\ reviewedInTick = {}
    /\ failedInTick = {}
    /\ startedEmpty = FALSE
    /\ received = ZeroReceived
    /\ failedBefore = {}
    /\ calls = NoCalls
    /\ lastErr = ""
    /\ before = NewStores
    /\ unfailed = NewStores
    /\ rebuilt = NewStores
    /\ listedBefore = [policy |-> {}, binding |-> {}]
    /\ list = NoList
    /\ generation = [user |-> 0, group |-> 0, review |-> 0]
    /\ sync = NoSync
    /\ call = NoCall
    /\ observed = NoneObserved

(***************************************************************************)
(* List, the reader.                                                       *)
(***************************************************************************)
\* the namespace names in the order sets.String.List() gives them
NamespaceOrder == <<"a", "b">>

\* keys.List(): the members of the set, sorted
SortedList(keys) == SelectSeq(NamespaceOrder, LAMBDA n : n \in keys)

\* the namespaces of the record of a subject, none without record
NamespacesOfSubject(subjectRecordStore, subject) ==
    IF subject \in DOMAIN subjectRecordStore
    THEN subjectRecordStore[subject] ELSE {}

\* what the scope evaluator may return: the visible namespaces, "*" for all
VisibleSets == SUBSET (Namespaces \cup {"*"})

\* the users List may be called for
UserInfos == [name : Users, groups : SUBSET Groups]

\* a faulty List, which does not filter by the visible namespaces
List_Unscoped(userInfo, allowedNamespaces, scopeErr) ==
    LET keys == UNION ({NamespacesOfSubject(userSubjectRecordStore,
                                            userInfo.name)} \cup
                       {NamespacesOfSubject(groupSubjectRecordStore, g) :
                           g \in userInfo.groups})
        sorted == SortedList(keys)
        kept == SelectSeq(sorted, LAMBDA key : key \in DOMAIN namespaceStore)
    IN IF scopeErr
       THEN [items |-> Nil, err |-> TRUE]
       ELSE [items |-> [i \in 1..Len(kept) |->
                           [name |-> kept[i],
                            resourceVersion |-> namespaceStore[kept[i]]]],
             err |-> FALSE]

\* List(userInfo), when scope.ScopesToVisibleNamespaces returns
\* allowedNamespaces, or an error if scopeErr: the NamespaceList items, or
\* nil, and whether an error is returned
List(userInfo, allowedNamespaces, scopeErr) ==
    LET keys == UNION ({NamespacesOfSubject(userSubjectRecordStore,
                                            userInfo.name)} \cup
                       {NamespacesOfSubject(groupSubjectRecordStore, g) :
                           g \in userInfo.groups})
        sorted == SortedList(keys)
        kept == SelectSeq(sorted,
                    LAMBDA key :
                        /\ key \in DOMAIN namespaceStore
                        /\ \/ "*" \in allowedNamespaces
                           \/ key \in allowedNamespaces)
    IN IF scopeErr
       THEN [items |-> Nil, err |-> TRUE]
       ELSE [items |-> [i \in 1..Len(kept) |->
                           [name |-> kept[i],
                            resourceVersion |-> namespaceStore[kept[i]]]],
             err |-> FALSE]

(***************************************************************************)
(* synchronize, one step at a time: the skip test with invalidateCache and *)
(* the namespace listing, one syncHandler call per step of each pass, the  *)
(* purge, and the swap with the two final assignments.                     *)
(***************************************************************************)
\* a synchronize whose locals always refer to the live stores
SetWorkingStores_InPlace(t) ==
    /\ userSubjectRecordStore' = t.user
    /\ groupSubjectRecordStore' = t.group
    /\ reviewRecordStore' = t.review
    /\ UNCHANGED fresh

\* the stores the locals of synchronize refer to become t
SetWorkingStores(t) ==
    IF invalidate
    THEN /\ fresh' = t
         /\ UNCHANGED liveStoreVars
    ELSE /\ userSubjectRecordStore' = t.user
         /\ groupSubjectRecordStore' = t.group
         /\ reviewRecordStore' = t.review
         /\ UNCHANGED fresh

\* received, with the calls of a sequence counted in
CountCalls(counts, made) ==
    [w \in Watchers |-> [n \in Namespaces |->
        counts[w][n] +
        Cardinality({i \in 1..Len(made) :
                        made[i].watcher = w /\ made[i].namespace = n})]]

\* a tick of the reconciler begins
TickStart ==
    /\ cycles' = cycles + 1
    /\ failedBefore' = failedInTick
    /\ failedInTick' = {}
    /\ reviewedInTick' = {}
    /\ received' = ZeroReceived
    /\ calls' = NoCalls
    /\ lastErr' = ""
    /\ before' = NewStores

\* synchronize, when SkipSynchronize says skip: it returns
SynchronizeSkip ==
    /\ pc = "idle"
    /\ cycles < MaxCycles
    /\ SkipSynchronize(skip, lastState, VersionTokens)[1]
    /\ TickStart
    /\ startedEmpty' = FALSE
    /\ UNCHANGED <<upstreamVars, reviewerVars, cacheVars, cycleVars, running,
                   events, unfailed, rebuilt, listedBefore, auxVars>>

\* the requests of synchronizeNamespaces
NamespaceRequests ==
    {NamespaceRequest(n, namespaceStore[n]) : n \in DOMAIN namespaceStore}

\* the requests of synchronizePolicies; none when the lister fails
PolicyRequests ==
    IF "policies" \in listerErrors THEN {}
    ELSE {PolicyRequest(u, policies[u]) : u \in DOMAIN policies}

\* the requests of synchronizePolicyBindings; none when the lister fails
PolicyBindingRequests ==
    IF "policyBindings" \in listerErrors THEN {}
    ELSE {PolicyBindingRequest(u, policyBindings[u]) :
             u \in DOMAIN policyBindings}

\* synchronize up to the namespace listing of synchronizeNamespaces: what
\* it does to the cache and to what is observed of the cycle
SynchronizeBegins ==
    LET skipped == SkipSynchronize(skip, lastState, VersionTokens)
        inv == invalidateCache(
                   clusterPolicyResourceVersions,
                   clusterBindingResourceVersions,
                   clusterPolicies, "clusterPolicies" \in listerErrors,
                   clusterPolicyBindings,
                   "clusterPolicyBindings" \in listerErrors)
    IN /\ pc = "idle"
       /\ cycles < MaxCycles
       /\ ~skipped[1]
       /\ TickStart
       /\ currentState' = skipped[2]
       /\ invalidate' = inv.invalidateCache
       /\ clusterPolicyResourceVersions' = inv.clusterPolicyResourceVersions
       /\ clusterBindingResourceVersions' = inv.clusterBindingResourceVersions
       /\ fresh' = NewStores
       /\ unfailed' = IF inv.invalidateCache THEN NewStores ELSE LiveStores
       /\ rebuilt' = NewStores
       /\ listedBefore' =
              [policy |-> IF "clusterPolicies" \in listerErrors
                          THEN listedBefore.policy ELSE clusterPolicies,
               binding |-> IF {"clusterPolicies", "clusterPolicyBindings"}
                                  \cap listerErrors # {}
                           THEN listedBefore.binding
                           ELSE clusterPolicyBindings]
       /\ startedEmpty' = (inv.invalidateCache \/ LiveStores = NewStores)
       /\ todo' = NamespaceRequests
       /\ newKnownNamespaces' = DOMAIN namespaceStore
       /\ pc' = "namespaces"
       /\ UNCHANGED <<upstreamVars, reviewerVars, allKnownNamespaces,
                      liveStoreVars, skip, lastState, watchers, running,
                      events>>

\* synchronize up to the namespace listing, as one step
SynchronizeBegin ==
    /\ SynchronizeBegins
    /\ UNCHANGED auxVars

\* ac.syncHandler(reviewRequest, ...) for one request of the current pass:
\* what it does to the cache and to what is observed of the cycle
Handled(request) ==
    LET r == syncRequest(request, WorkingStores, reviewer[request.namespace],
                         request.namespace \in failing, watchers)
    IN /\ SetWorkingStores(r.stores)
       /\ todo' = todo \ {request}
       /\ reviewedInTick' = IF r.reviewed
                            THEN reviewedInTick \cup {request.namespace}
                            ELSE reviewedInTick
       /\ failedInTick' = IF r.err = "review"
                          THEN failedInTick \cup {request.namespace}
                          ELSE failedInTick
       /\ received' = CountCalls(received, r.calls)
       /\ calls' = r.calls
       /\ lastErr' = r.err
       /\ before' = WorkingStores
       /\ unfailed' = syncRequest(request, unfailed,
                                  reviewer[request.namespace], FALSE,
                                  watchers).stores
       /\ rebuilt' = syncRequest(request, rebuilt,
                                 reviewer[request.namespace],
                                 request.namespace \in failing,
                                 watchers).stores
       /\ UNCHANGED <<upstreamVars, reviewerVars, allKnownNamespaces,
                      clusterVersionVars, skip, lastState, watchers, pc,
                      currentState, invalidate, newKnownNamespaces, running,
                      events, cycles, startedEmpty, failedBefore,
                      listedBefore>>

\* the syncHandler call as one step
Dispatch(request) ==
    /\ Handled(request)
    /\ UNCHANGED auxVars

\* the loop body of synchronizeNamespaces
SyncNamespace ==
    /\ pc = "namespaces"
    /\ \E request \in todo : Dispatch(request)

\* the loop body of synchronizePolicies
SyncPolicy ==
    /\ pc = "policies"
    /\ \E request \in todo : Dispatch(request)

\* the loop body of synchronizePolicyBindings
SyncPolicyBinding ==
    /\ pc = "policyBindings"
    /\ \E request \in todo : Dispatch(request)

\* a pass is over and the next one lists its requests
NextPass(from, to, requests) ==
    /\ pc = from
    /\ todo = {}
    /\ pc' = to
    /\ todo' = requests
    /\ calls' = NoCalls
    /\ lastErr' = ""
    /\ before' = NewStores
    /\ UNCHANGED <<upstreamVars, reviewerVars, cacheVars, currentState,
                   invalidate, fresh, newKnownNamespaces, running, events,
                   cycles, tickVars, unfailed, rebuilt, listedBefore,
                   auxVars>>

\* synchronizePolicies lists the policies
SynchronizePolicies == NextPass("namespaces", "policies", PolicyRequests)

\* synchronizePolicyBindings lists the policy bindings
SynchronizePolicyBindings ==
    NextPass("policies", "policyBindings", PolicyBindingRequests)

\* the calls of the purge: one notifyWatchers, with empty sets, for each
\* namespace of the set, in some order
RECURSIVE PurgeCalls(_, _)
PurgeCalls(watcherList, namespaces) ==
    IF namespaces = {} THEN NoCalls
    ELSE LET n == CHOOSE x \in namespaces : TRUE
         IN notifyWatchers(watcherList, n, {}, {}) \o
            PurgeCalls(watcherList, namespaces \ {n})

\* purgeDeletedNamespaces(ac.allKnownNamespaces, newKnownNamespaces, ...):
\* what it does to the cache and to what is observed of the cycle
Purged ==
    LET made == PurgeCalls(watchers,
                    PurgeNotified(allKnownNamespaces, newKnownNamespaces))
    IN /\ pc = "policyBindings"
       /\ todo = {}
       /\ SetWorkingStores(
              purgeDeletedNamespaces(newKnownNamespaces, WorkingStores))
       /\ received' = CountCalls(received, made)
       /\ calls' = made
       /\ lastErr' = ""
       /\ before' = WorkingStores
       /\ unfailed' = purgeDeletedNamespaces(newKnownNamespaces, unfailed)
       /\ rebuilt' = purgeDeletedNamespaces(newKnownNamespaces, rebuilt)
       /\ UNCHANGED listedBefore
       /\ pc' = "finish"
       /\ UNCHANGED <<upstreamVars, reviewerVars, allKnownNamespaces,
                      clusterVersionVars, skip, lastState, watchers,
                      currentState, invalidate, todo, newKnownNamespaces,
                      running, events, cycles, reviewedInTick, failedInTick,
                      startedEmpty, failedBefore>>

\* purgeDeletedNamespaces as one step
PurgeDeletedNamespaces ==
    /\ Purged
    /\ UNCHANGED auxVars

\* the last two assignments of synchronize and its return
SynchronizeReturns ==
    /\ allKnownNamespaces' = newKnownNamespaces
    /\ lastState' = currentState
    /\ pc' = "idle"
    /\ currentState' = <<>>
    /\ invalidate' = FALSE
    /\ fresh' = NewStores
    /\ unfailed' = NewStores
    /\ rebuilt' = NewStores
    /\ UNCHANGED listedBefore
    /\ newKnownNamespaces' = {}
    /\ calls' = NoCalls
    /\ lastErr' = ""
    /\ before' = NewStores
    /\ UNCHANGED <<upstreamVars, reviewerVars, clusterVersionVars, skip,
                   watchers, todo, running, events, cycles, tickVars>>

\* the end of synchronize: the swap of a full rebuild, allKnownNamespaces
\* and lastState
SynchronizeFinish ==
    /\ pc = "finish"
    /\ IF invalidate
       THEN /\ userSubjectRecordStore' = fresh.user
            /\ groupSubjectRecordStore' = fresh.group
            /\ reviewRecordStore' = fresh.review
       ELSE UNCHANGED liveStoreVars
    /\ SynchronizeReturns
    /\ UNCHANGED auxVars

\* Run: the skip synchronizer becomes the stateless one and the ticker
\* starts
Run ==
    /\ ~running
    /\ pc = "idle"
    /\ cycles < MaxCycles
    /\ running' = TRUE
    /\ skip' = "stateless"
    /\ UNCHANGED <<upstreamVars, reviewerVars, allKnownNamespaces,
                   liveStoreVars, clusterVersionVars, lastState, watchers,
                   cycleVars, events, cycles, tickVars, calls, lastErr,
                   before, unfailed, rebuilt, listedBefore, auxVars>>

(***************************************************************************)
(* The watcher registry.                                                   *)
(***************************************************************************)
\* the list after AddWatcher
addWatcher(watcherList, watcher) == Append(watcherList, watcher)

\* a RemoveWatcher that removes every entry identical to the watcher
removeWatcher_All(watcherList, watcher) ==
    SelectSeq(watcherList, LAMBDA w : w # watcher)

\* the list after RemoveWatcher: the first entry identical to the watcher
\* is removed and the later entries shift down
removeWatcher(watcherList, watcher) ==
    LET found == {i \in 1..Len(watcherList) : watcherList[i] = watcher}
    IN IF found = {} THEN watcherList
       ELSE LET i == CHOOSE x \in found : \A y \in found : x <= y
            IN SubSeq(watcherList, 1, i - 1) \o
               SubSeq(watcherList, i + 1, Len(watcherList))

\* what a step outside synchronize leaves alone
OutsideSynchronize ==
    UNCHANGED <<allKnownNamespaces, liveStoreVars, clusterVersionVars,
                skip, lastState, cycleVars, running, cycles, tickVars,
                calls, lastErr, before, unfailed, rebuilt, listedBefore,
                auxVars>>

AddWatcher ==
    /\ Len(watchers) < MaxWatchers
    /\ \E w \in Watchers : watchers' = addWatcher(watchers, w)
    /\ OutsideSynchronize
    /\ UNCHANGED <<upstreamVars, reviewerVars, events>>

RemoveWatcher ==
    /\ \E w \in Watchers :
          /\ watchers # <<>>
          /\ watchers' = removeWatcher(watchers, w)
    /\ OutsideSynchronize
    /\ UNCHANGED <<upstreamVars, reviewerVars, events>>

(***************************************************************************)
(* The environment: the informers see upstream changes, each of which      *)
(* moves the LastSyncResourceVersion of its source; a change of a policy   *)
(* or of a binding may change what the Reviewer answers; the Reviewer or a *)
(* lister starts or stops failing.                                         *)
(***************************************************************************)
\* events are taken between two cycles, while a later tick can still see them
EventAllowed == events < MaxEvents /\ pc = "idle" /\ cycles < MaxCycles

\* an upstream event on a source
Event(source) ==
    /\ EventAllowed
    /\ events' = events + 1
    /\ versions' = [versions EXCEPT ![source] = @ + 1]
    /\ OutsideSynchronize
    /\ UNCHANGED <<failing, listerErrors, watchers>>

\* the Reviewer answers as before, or differently for the namespace
ReviewMayChange(n) ==
    \E r \in Reviews : reviewer' = [reviewer EXCEPT ![n] = r]

\* f with key k set to v
Put(f, k, v) == [x \in (DOMAIN f) \cup {k} |-> IF x = k THEN v ELSE f[x]]

\* f without key k
Drop(f, k) == [x \in (DOMAIN f) \ {k} |-> f[x]]

NamespaceChanged ==
    /\ \E n \in Namespaces, rv \in ResourceVersions :
          /\ n \in DOMAIN namespaceStore => namespaceStore[n] # rv
          /\ namespaceStore' = Put(namespaceStore, n, rv)
    /\ Event("namespaces")
    /\ UNCHANGED <<policies, policyBindings, clusterPolicies,
                   clusterPolicyBindings, reviewer>>

NamespaceDeleted ==
    /\ \E n \in DOMAIN namespaceStore :
          namespaceStore' = Drop(namespaceStore, n)
    /\ Event("namespaces")
    /\ UNCHANGED <<policies, policyBindings, clusterPolicies,
                   clusterPolicyBindings, reviewer>>

\* the listings in which the object uid of namespace n is new or has a new
\* resource version
Changed(objects, uid, n) ==
    {Put(objects, uid, [namespace |-> n, resourceVersion |-> rv]) :
        rv \in ResourceVersions} \ {objects}

\* the namespace of the object uid: its own when it exists, any otherwise
NamespacesOf(objects, uid) ==
    IF uid \in DOMAIN objects THEN {objects[uid].namespace} ELSE Namespaces

PolicyChanged ==
    /\ \E u \in PolicyUIDs : \E n \in NamespacesOf(policies, u) :
          /\ policies' \in Changed(policies, u, n)
          /\ ReviewMayChange(n)
    /\ Event("policies")
    /\ UNCHANGED <<namespaceStore, policyBindings, clusterPolicies,
                   clusterPolicyBindings>>

PolicyDeleted ==
    /\ \E u \in DOMAIN policies :
          /\ policies' = Drop(policies, u)
          /\ ReviewMayChange(policies[u].namespace)
    /\ Event("policies")
    /\ UNCHANGED <<namespaceStore, policyBindings, clusterPolicies,
                   clusterPolicyBindings>>

PolicyBindingChanged ==
    /\ \E u \in BindingUIDs : \E n \in NamespacesOf(policyBindings, u) :
          /\ policyBindings' \in Changed(policyBindings, u, n)
          /\ ReviewMayChange(n)
    /\ Event("policyBindings")
    /\ UNCHANGED <<namespaceStore, policies, clusterPolicies,
                   clusterPolicyBindings>>

PolicyBindingDeleted ==
    /\ \E u \in DOMAIN policyBindings :
          /\ policyBindings' = Drop(policyBindings, u)
          /\ ReviewMayChange(policyBindings[u].namespace)
    /\ Event("policyBindings")
    /\ UNCHANGED <<namespaceStore, policies, clusterPolicies,
                   clusterPolicyBindings>>

ClusterPoliciesChanged ==
    /\ \E new \in (SUBSET ResourceVersions) \ {clusterPolicies} :
          clusterPolicies' = new
    /\ Event("clusterPolicies")
    /\ UNCHANGED <<namespaceStore, policies, policyBindings,
                   clusterPolicyBindings, reviewer>>

ClusterPolicyBindingsChanged ==
    /\ \E new \in (SUBSET ResourceVersions) \ {clusterPolicyBindings} :
          clusterPolicyBindings' = new
    /\ Event("clusterPolicyBindings")
    /\ UNCHANGED <<namespaceStore, policies, policyBindings,
                   clusterPolicies, reviewer>>

\* the Reviewer or a lister starts or stops failing: no source version moves
Fault ==
    /\ EventAllowed
    /\ events' = events + 1
    /\ OutsideSynchronize
    /\ UNCHANGED <<upstreamVars, reviewer, watchers>>

\* s with x put in if it is out, taken out if it is in
Toggle(s, x) == IF x \in s THEN s \ {x} ELSE s \cup {x}

ReviewerFault ==
    /\ \E n \in Namespaces : failing' = Toggle(failing, n)
    /\ Fault
    /\ UNCHANGED listerErrors

ListerFault ==
    /\ \E l \in Listers : listerErrors' = Toggle(listerErrors, l)
    /\ Fault
    /\ UNCHANGED failing

Next ==
    \/ SynchronizeSkip
    \/ SynchronizeBegin
    \/ SyncNamespace
    \/ SynchronizePolicies
    \/ SyncPolicy
    \/ SynchronizePolicyBindings
    \/ SyncPolicyBinding
    \/ PurgeDeletedNamespaces
    \/ SynchronizeFinish
    \/ Run
    \/ AddWatcher
    \/ RemoveWatcher
    \/ NamespaceChanged
    \/ NamespaceDeleted
    \/ PolicyChanged
    \/ PolicyDeleted
    \/ PolicyBindingChanged
    \/ PolicyBindingDeleted
    \/ ClusterPoliciesChanged
    \/ ClusterPolicyBindingsChanged
    \/ ReviewerFault
    \/ ListerFault

Spec == Init /\ [][Next]_vars

(***************************************************************************)
(* synchronize followed statement by statement, with a List call running   *)
(* beside it.  A syncRequest that performs the review is the sequence of   *)
(* the store operations of deleteNamespaceFromSubjects and                 *)
(* addSubjectsToNamespace, then cacheReviewRecord and notifyWatchers; the   *)
(* swap of a full rebuild is its three assignments.  List reads the user   *)
(* store, then the group store for each group, then filters the keys.  No  *)
(* lock is held by either side on the stores or on their handles.          *)
(***************************************************************************)
\* the subjects in the order sets.String.List() gives them
SubjectOrder == <<"alice", "bob", "dev">>

\* the store operations of one loop of deleteNamespaceFromSubjects or
\* addSubjectsToNamespace: for each subject in turn, the statements of the
\* loop body that touch the store
RECURSIVE LoopOps(_, _, _, _)
LoopOps(store, statements, subjects, namespace) ==
    IF subjects = <<>> THEN <<>>
    ELSE [i \in 1..Len(statements) |->
             [store |-> store, op |-> statements[i],
              subject |-> Head(subjects), namespace |-> namespace]] \o
         LoopOps(store, statements, Tail(subjects), namespace)

\* the subjects of the set, in order
SortedSubjects(subjects) == SelectSeq(SubjectOrder, LAMBDA x : x \in subjects)

\* the store operations of syncRequest between the review and
\* cacheReviewRecord
StoreOps(request, lastKnownValue, review) ==
    LET usersToRemove ==
            IF lastKnownValue # Nil
            THEN lastKnownValue.users \ review.users ELSE {}
        groupsToRemove ==
            IF lastKnownValue # Nil
            THEN lastKnownValue.groups \ review.groups ELSE {}
    IN LoopOps("user", <<"delete", "Delete">>,
               SortedSubjects(usersToRemove), request.namespace) \o
       LoopOps("group", <<"delete", "Delete">>,
               SortedSubjects(groupsToRemove), request.namespace) \o
       LoopOps("user", <<"Add", "Insert">>,
               SortedSubjects(review.users), request.namespace) \o
       LoopOps("group", <<"Add", "Insert">>,
               SortedSubjects(review.groups), request.namespace)

\* the subject store after one statement:
\*   delete  delete(subjectRecord.namespaces, namespace), if the record exists
\*   Delete  subjectRecordStore.Delete(subjectRecord), if the record exists
\*           and its namespaces are now none
\*   Add     subjectRecordStore.Add of a record with no namespace, if the
\*           subject has no record
\*   Insert  item.namespaces.Insert(namespace)
StoreAfter(subjectRecordStore, o) ==
    LET exists == o.subject \in DOMAIN subjectRecordStore
    IN CASE o.op = "delete" ->
                IF exists
                THEN [subjectRecordStore EXCEPT
                         ![o.subject] = @ \ {o.namespace}]
                ELSE subjectRecordStore
         [] o.op = "Delete" ->
                IF exists /\ subjectRecordStore[o.subject] = {}
                THEN [x \in (DOMAIN subjectRecordStore) \ {o.subject} |->
                         subjectRecordStore[x]]
                ELSE subjectRecordStore
         [] o.op = "Add" ->
                IF exists THEN subjectRecordStore
                ELSE [x \in (DOMAIN subjectRecordStore) \cup {o.subject} |->
                         IF x = o.subject THEN {}
                         ELSE subjectRecordStore[x]]
         [] o.op = "Insert" ->
                [subjectRecordStore EXCEPT ![o.subject] = @ \cup {o.namespace}]

\* the stores after one statement
StoresAfter(stores, o) ==
    IF o.store = "user"
    THEN [stores EXCEPT !.user = StoreAfter(@, o)]
    ELSE [stores EXCEPT !.group = StoreAfter(@, o)]

\* what no statement of a syncRequest and no assignment of the swap changes
settledVars == <<upstreamVars, reviewerVars, allKnownNamespaces,
                 clusterVersionVars, skip, lastState, watchers, currentState,
                 invalidate, todo, newKnownNamespaces, running, events,
                 cycles, tickVars, calls, lastErr, before, unfailed, rebuilt,
                 listedBefore>>

\* syncRequest returns before any store operation: skipReview says skip,
\* or the Reviewer returns an error
SyncRequestReturns ==
    /\ pc \in {"namespaces", "policies", "policyBindings"}
    /\ sync = NoSync
    /\ \E request \in todo :
          /\ \/ skipReview(request,
                           lastKnown(WorkingStores.review, request.namespace))
             \/ request.namespace \in failing
          /\ Dispatch(request)

\* syncRequest gets the review and has its store operations before it
SyncRequestReviews ==
    /\ pc \in {"namespaces", "policies", "policyBindings"}
    /\ sync = NoSync
    /\ \E request \in todo :
          LET lastKnownValue ==
                  lastKnown(WorkingStores.review, request.namespace)
          IN /\ ~skipReview(request, lastKnownValue)
             /\ request.namespace \notin failing
             /\ sync' = [pc |-> "stores", request |-> request,
                         ops |-> StoreOps(request, lastKnownValue,
                                          reviewer[request.namespace])]
    /\ UNCHANGED <<programVars, list, generation, call, observed>>

\* one statement of deleteNamespaceFromSubjects or addSubjectsToNamespace
SyncRequestStore ==
    /\ sync.pc = "stores"
    /\ sync.ops # <<>>
    /\ SetWorkingStores(StoresAfter(WorkingStores, Head(sync.ops)))
    /\ sync' = [sync EXCEPT !.ops = Tail(@)]
    /\ UNCHANGED <<settledVars, pc, list, generation, call, observed>>

\* cacheReviewRecord and notifyWatchers, and syncRequest returns
SyncRequestCaches ==
    /\ sync.pc = "stores"
    /\ sync.ops = <<>>
    /\ Handled(sync.request)
    /\ sync' = NoSync
    /\ UNCHANGED <<list, generation, call, observed>>

\* ac.userSubjectRecordStore = userSubjectRecordStore
SwapUser ==
    /\ pc = "finish"
    /\ invalidate
    /\ userSubjectRecordStore' = fresh.user
    /\ generation' = [generation EXCEPT !.user = @ + 1]
    /\ pc' = "swapGroup"
    /\ UNCHANGED <<settledVars, groupSubjectRecordStore, reviewRecordStore,
                   fresh, list, sync, call, observed>>

\* ac.groupSubjectRecordStore = groupSubjectRecordStore
SwapGroup ==
    /\ pc = "swapGroup"
    /\ groupSubjectRecordStore' = fresh.group
    /\ generation' = [generation EXCEPT !.group = @ + 1]
    /\ pc' = "swapReview"
    /\ UNCHANGED <<settledVars, userSubjectRecordStore, reviewRecordStore,
                   fresh, list, sync, call, observed>>

\* ac.reviewRecordStore = reviewRecordStore
SwapReview ==
    /\ pc = "swapReview"
    /\ reviewRecordStore' = fresh.review
    /\ generation' = [generation EXCEPT !.review = @ + 1]
    /\ pc' = "swapped"
    /\ UNCHANGED <<settledVars, userSubjectRecordStore,
                   groupSubjectRecordStore, fresh, list, sync, call,
                   observed>>

\* synchronize after the swap, or with no swap to do
SynchronizeEnds ==
    /\ \/ pc = "swapped"
       \/ pc = "finish" /\ ~invalidate
    /\ UNCHANGED liveStoreVars
    /\ SynchronizeReturns
    /\ UNCHANGED auxVars

\* the rest of List once the keys are collected: the NamespaceList items,
\* or nil, and whether an error is returned
NamespaceList(keys, allowedNamespaces, scopeErr) ==
    LET kept == SelectSeq(SortedList(keys),
                    LAMBDA key :
                        /\ key \in DOMAIN namespaceStore
                        /\ \/ "*" \in allowedNamespaces
                           \/ key \in allowedNamespaces)
    IN IF scopeErr
       THEN [items |-> Nil, err |-> TRUE]
       ELSE [items |-> [i \in 1..Len(kept) |->
                           [name |-> kept[i],
                            resourceVersion |-> namespaceStore[kept[i]]]],
             err |-> FALSE]

\* List is called and reads the record of the user
ListReadsUser ==
    /\ list = NoList
    /\ \E userInfo \in UserInfos :
          list' = [pc |-> "groups", userInfo |-> userInfo,
                   groups |-> userInfo.groups,
                   keys |-> NamespacesOfSubject(userSubjectRecordStore,
                                                userInfo.name),
                   emptyRecord |->
                       /\ userInfo.name \in DOMAIN userSubjectRecordStore
                       /\ userSubjectRecordStore[userInfo.name] = {},
                   userGeneration |-> generation.user,
                   groupGenerations |-> {}]
    /\ UNCHANGED <<programVars, generation, sync, call, observed>>

\* List reads the record of one more group
ListReadsGroup ==
    /\ list.pc = "groups"
    /\ \E group \in list.groups :
          list' = [list EXCEPT
                      !.groups = @ \ {group},
                      !.keys = @ \cup NamespacesOfSubject(
                                         groupSubjectRecordStore, group),
                      !.emptyRecord =
                          \/ @
                          \/ /\ group \in DOMAIN groupSubjectRecordStore
                             /\ groupSubjectRecordStore[group] = {},
                      !.groupGenerations = @ \cup {generation.group}]
    /\ UNCHANGED <<programVars, generation, sync, call, observed>>

\* List evaluates the scopes, looks the keys up and returns
ListReturns ==
    /\ list.pc = "groups"
    /\ list.groups = {}
    /\ \E allowedNamespaces \in {{"*"}, {"a"}}, scopeErr \in BOOLEAN :
          list' = [pc |-> "returned", userInfo |-> list.userInfo,
                   emptyRecord |-> list.emptyRecord,
                   userGeneration |-> list.userGeneration,
                   groupGenerations |-> list.groupGenerations,
                   result |-> NamespaceList(list.keys, allowedNamespaces,
                                            scopeErr)]
    /\ UNCHANGED <<programVars, generation, sync, call, observed>>

\* a cache over an upstream with no policy and no binding yet, with or
\* without a cluster policy
ConcurrentInit ==
    /\ Init
    /\ policies = EmptyMap
    /\ policyBindings = EmptyMap
    /\ clusterPolicyBindings = {}
    /\ failing = {}

ConcurrentNext ==
    \/ SynchronizeBegin
    \/ SyncRequestReturns
    \/ SyncRequestReviews
    \/ SyncRequestStore
    \/ SyncRequestCaches
    \/ SynchronizePolicies
    \/ SynchronizePolicyBindings
    \/ PurgeDeletedNamespaces
    \/ SwapUser
    \/ SwapGroup
    \/ SwapReview
    \/ SynchronizeEnds
    \/ PolicyBindingChanged
    \/ ListReadsUser
    \/ ListReadsGroup
    \/ ListReturns

ConcurrentSpec == ConcurrentInit /\ [][ConcurrentNext]_vars

(***************************************************************************)
(* The functions of the package applied to arguments of their own: the     *)
(* registry operations on watcher lists with repeated entries, skipReview  *)
(* on requests and records with several policies, a nil request and a nil  *)
(* record.                                                                  *)
(***************************************************************************)
MaxListLen == 3

UnitWatchers == {"w1", "w2"}

\* the watcher lists of up to MaxListLen entries
WatcherLists ==
    UNION {[1..k -> UnitWatchers] : k \in 0..MaxListLen}

UnitPolicyUIDs == {"p1", "p2"}

\* the UID to resourceVersion maps over the UIDs
VersionMaps(uids) ==
    UNION {[d -> ResourceVersions] : d \in SUBSET uids}

\* the reviewRequests skipReview is applied to
UnitRequests ==
    [namespace : Namespaces,
     namespaceResourceVersion : {""} \cup ResourceVersions,
     policyUIDToResourceVersion : VersionMaps(UnitPolicyUIDs),
     policyBindingUIDToResourceVersion : VersionMaps(BindingUIDs)]

\* the reviewRecords skipReview is applied to
UnitRecords ==
    [namespace : Namespaces,
     namespaceResourceVersion : {""} \cup ResourceVersions,
     policyUIDToResourceVersion : VersionMaps(UnitPolicyUIDs),
     policyBindingUIDToResourceVersion : VersionMaps(BindingUIDs),
     users : {{"alice"}}, groups : {{}}]

\* a function of the package is applied, once: the program itself does not
\* move
Applied ==
    /\ call = NoCall
    /\ UNCHANGED <<programVars, list, generation, sync, observed>>

ApplySkipReview ==
    /\ Applied
    /\ \E request \in UnitRequests \cup {Nil},
          lastKnownValue \in UnitRecords \cup {Nil} :
          call' = [op |-> "skipReview", request |-> request,
                   lastKnownValue |-> lastKnownValue,
                   result |-> skipReview(request, lastKnownValue)]

ApplyAddWatcher ==
    /\ Applied
    /\ \E watcherList \in WatcherLists, watcher \in UnitWatchers :
          call' = [op |-> "AddWatcher", watchers |-> watcherList,
                   watcher |-> watcher,
                   result |-> addWatcher(watcherList, watcher)]

ApplyRemoveWatcher ==
    /\ Applied
    /\ \E watcherList \in WatcherLists, watcher \in UnitWatchers :
          call' = [op |-> "RemoveWatcher", watchers |-> watcherList,
                   watcher |-> watcher,
                   result |-> removeWatcher(watcherList, watcher)]

ApplyNotifyWatchers ==
    /\ Applied
    /\ \E watcherList \in WatcherLists, namespace \in Namespaces,
          users \in SUBSET Users, groups \in SUBSET Groups :
          call' = [op |-> "notifyWatchers", watchers |-> watcherList,
                   namespace |-> namespace, users |-> users,
                   groups |-> groups,
                   result |-> notifyWatchers(watcherList, namespace, users,
                                             groups)]

\* the version tokens of a source
UnitTokens == {<<>>, <<"1">>, <<"2">>, <<"1", "2">>}

\* the versionedObjects of a SkipSynchronize call, as their tokens
TokenLists == UNION {[1..k -> UnitTokens] : k \in 0..MaxListLen}

\* the prevState of a SkipSynchronize call
PrevStates == UNION {[1..k -> {"1", "2", ","}] : k \in 0..MaxListLen}

\* ac.skip.SkipSynchronize(prevState, versionedObjects...), before or after
\* Run
ApplySkipSynchronize ==
    /\ Applied
    /\ \E prevState \in PrevStates, tokens \in TokenLists :
          call' = [op |-> "SkipSynchronize", ran |-> running,
                   prevState |-> prevState, tokens |-> tokens,
                   result |-> SkipSynchronize(skip, prevState, tokens)]

\* a cache over one upstream, on which no reconciler cycle runs
UnitInit ==
    /\ Init
    /\ DOMAIN namespaceStore = Namespaces
    /\ policies = EmptyMap
    /\ policyBindings = EmptyMap
    /\ clusterPolicies = {}
    /\ clusterPolicyBindings = {}
    /\ failing = {}

UnitNext ==
    \/ ApplySkipReview
    \/ ApplyAddWatcher
    \/ ApplyRemoveWatcher
    \/ ApplyNotifyWatchers
    \/ ApplySkipSynchronize
    \/ Run

UnitSpec == UnitInit /\ [][UnitNext]_vars

(***************************************************************************)
(* The reconciler over sources whose LastSyncResourceVersion moves freely: *)
(* a token is the string its source returns, and the cache only joins and  *)
(* compares the strings.  The listings stay as they are.                   *)
(***************************************************************************)
\* changes of a source's token in one behaviour
MaxTokenChanges == 3

\* the resource versions a source may report
TokenValues == {1, 2, 11, 12}

Sources == {"namespaces"} \cup Listers

\* a source's LastSyncResourceVersion becomes another value
LastSyncResourceVersionChanged ==
    /\ events < MaxTokenChanges
    /\ cycles < MaxCycles
    /\ events' = events + 1
    /\ \E source \in Sources : \E v \in TokenValues \ {versions[source]} :
          versions' = [versions EXCEPT ![source] = v]
    /\ OutsideSynchronize
    /\ UNCHANGED <<namespaceStore, policies, policyBindings, clusterPolicies,
                   clusterPolicyBindings, reviewerVars, watchers>>

\* synchronize up to the namespace listing; the tokens it read are noted
SynchronizeBeginObserved ==
    /\ SynchronizeBegins
    /\ observed' = [observed EXCEPT !.begun = versions]
    /\ UNCHANGED <<list, generation, sync, call>>

\* the end of synchronize; the cycle that read the noted tokens is completed
SynchronizeFinishObserved ==
    /\ pc = "finish"
    /\ IF invalidate
       THEN /\ userSubjectRecordStore' = fresh.user
            /\ groupSubjectRecordStore' = fresh.group
            /\ reviewRecordStore' = fresh.review
       ELSE UNCHANGED liveStoreVars
    /\ SynchronizeReturns
    /\ observed' = [observed EXCEPT !.completed = observed.begun]
    /\ UNCHANGED <<list, generation, sync, call>>

TokenInit == UnitInit

TokenNext ==
    \/ Run
    \/ LastSyncResourceVersionChanged
    \/ SynchronizeSkip
    \/ SynchronizeBeginObserved
    \/ SyncNamespace
    \/ SynchronizePolicies
    \/ SynchronizePolicyBindings
    \/ PurgeDeletedNamespaces
    \/ SynchronizeFinishObserved

TokenSpec == TokenInit /\ [][TokenNext]_vars

(***************************************************************************)
(* The reconciler with what each watcher was last told of each namespace.  *)
(***************************************************************************)
\* the last call of the sequence to the watcher for the namespace is call i
LastCall(made, w, n) ==
    {i \in 1..Len(made) :
        /\ made[i].watcher = w /\ made[i].namespace = n
        /\ \A j \in (i + 1)..Len(made) :
               ~(made[j].watcher = w /\ made[j].namespace = n)}

\* the calls of the step reach the watchers
Notified ==
    /\ observed' =
          [observed EXCEPT !.notified =
              [w \in Watchers |-> [n \in Namespaces |->
                  IF LastCall(calls', w, n) = {} THEN @[w][n]
                  ELSE LET i == CHOOSE x \in LastCall(calls', w, n) : TRUE
                       IN [users |-> calls'[i].users,
                           groups |-> calls'[i].groups]]]]
    /\ UNCHANGED <<list, generation, sync, call>>

SyncNamespaceNotified ==
    /\ pc = "namespaces"
    /\ \E request \in todo : Handled(request) /\ Notified

SyncPolicyNotified ==
    /\ pc = "policies"
    /\ \E request \in todo : Handled(request) /\ Notified

SyncPolicyBindingNotified ==
    /\ pc = "policyBindings"
    /\ \E request \in todo : Handled(request) /\ Notified

PurgeDeletedNamespacesNotified ==
    /\ Purged
    /\ Notified

\* a cache whose Reviewer does not fail
WatcherInit ==
    /\ Init
    /\ failing = {}

WatcherNext ==
    \/ AddWatcher
    \/ SynchronizeBegin
    \/ SyncNamespaceNotified
    \/ SynchronizePolicies
    \/ SyncPolicyNotified
    \/ SynchronizePolicyBindings
    \/ SyncPolicyBindingNotified
    \/ PurgeDeletedNamespacesNotified
    \/ SynchronizeFinish
    \/ NamespaceChanged
    \/ NamespaceDeleted
    \/ PolicyChanged
    \/ PolicyDeleted
    \/ PolicyBindingChanged
    \/ PolicyBindingDeleted

WatcherSpec == WatcherInit /\ [][WatcherNext]_vars

(***************************************************************************)
(* Properties.                                                             *)
(***************************************************************************)
\* the subjects whose record in the store contains the namespace
SubjectsOf(subjectRecordStore, namespace) ==
    {s \in DOMAIN subjectRecordStore : namespace \in subjectRecordStore[s]}

\* the subjects the review record of the namespace lists, none without record
ListedIn(reviewStore, field, namespace) ==
    IF namespace \in DOMAIN reviewStore
    THEN reviewStore[namespace][field] ELSE {}

\* I1 for a triple of stores
IndexAgreement(stores) ==
    \A n \in Namespaces :
        /\ ListedIn(stores.review, "users", n) = SubjectsOf(stores.user, n)
        /\ ListedIn(stores.review, "groups", n) = SubjectsOf(stores.group, n)

\* a cycle has completed: synchronize returned without skipping
CycleCompleted == pc = "finish" /\ pc' = "idle"

\* C1: at the end of every completed synchronize cycle, a subject is listed
\* in the users (groups) of the review record of a namespace exactly when
\* its user (group) subject record exists in the live store and contains
\* the namespace; Reviewer errors during the cycle do not change that.
C1_IndexAgreementAtRest == pc = "idle" => IndexAgreement(LiveStores)

\* a second cycle has completed, the Reviewer failed in the first one, and
\* the live stores hold records of users and of groups
C1_Witness ==
    /\ pc = "idle"
    /\ cycles = 2
    /\ failedBefore # {}
    /\ DOMAIN reviewRecordStore # {}
    /\ DOMAIN userSubjectRecordStore = Users
    /\ DOMAIN groupSubjectRecordStore # {}

\* I2 for a subject record store
NoEmptySubject(subjectRecordStore) ==
    \A s \in DOMAIN subjectRecordStore : subjectRecordStore[s] # {}

\* C2: after every completed syncRequest and every completed
\* purgeDeletedNamespaces, no user or group store, live or freshly built,
\* holds a subject record whose namespace set is empty: a subject that
\* loses its last namespace is deleted.
C2_NoEmptySubjects ==
    /\ NoEmptySubject(userSubjectRecordStore)
    /\ NoEmptySubject(groupSubjectRecordStore)
    /\ NoEmptySubject(fresh.user)
    /\ NoEmptySubject(fresh.group)

\* a syncRequest of the policy pass has just taken from bob the only
\* namespace of his record, and the record is gone
C2_Witness ==
    /\ pc = "policies"
    /\ lastErr = ""
    /\ "bob" \in DOMAIN before.user
    /\ before.user["bob"] = {"b"}
    /\ "bob" \notin DOMAIN WorkingStores.user
    /\ "alice" \in DOMAIN WorkingStores.user

\* the stores hold no trace of the namespace
NoTrace(stores, n) ==
    /\ n \notin DOMAIN stores.review
    /\ SubjectsOf(stores.user, n) = {}
    /\ SubjectsOf(stores.group, n) = {}

\* C3: after a completed cycle, a namespace that the namespace pass did not
\* list (allKnownNamespaces is the set it listed) has no review record in
\* the live store and is in no live user or group subject record, be it a
\* namespace that disappeared or one whose record the policy or binding
\* pass of this cycle created.
C3_PurgeRemovesAllTraces ==
    pc = "idle" =>
        \A n \in Namespaces \ allKnownNamespaces : NoTrace(LiveStores, n)

\* a cycle has completed in which the policy pass had the Reviewer answer
\* for namespace b, which the namespace store does not hold
C3_Witness ==
    /\ pc = "idle"
    /\ cycles >= 1
    /\ "b" \notin allKnownNamespaces
    /\ "b" \in reviewedInTick
    /\ failedInTick = {}
    /\ DOMAIN reviewRecordStore # {}

\* the names of the items of a namespace list
NamesOf(items) == {items[i].name : i \in 1..Len(items)}

\* the namespaces the claim says List returns
Listable(userInfo, allowedNamespaces) ==
    {n \in Namespaces :
        /\ \/ n \in NamespacesOfSubject(userSubjectRecordStore, userInfo.name)
           \/ \E g \in userInfo.groups :
                 n \in NamespacesOfSubject(groupSubjectRecordStore, g)
        /\ n \in DOMAIN namespaceStore
        /\ "*" \in allowedNamespaces \/ n \in allowedNamespaces}

\* C4: in every state, for every user, groups and scope result, List
\* returns no error and exactly (each once) the namespaces that are in the
\* record of the user or of one of the groups, exist in the namespace store
\* and are visible ("*" or the name); a scope-evaluator error is returned
\* with no list.
C4_ListReturnsVisibleNamespaces ==
    \A userInfo \in UserInfos :
        /\ \A allowed \in VisibleSets :
              LET got == List(userInfo, allowed, FALSE)
              IN /\ ~got.err
                 /\ NamesOf(got.items) = Listable(userInfo, allowed)
                 /\ Len(got.items) = Cardinality(Listable(userInfo, allowed))
        /\ \A allowed \in VisibleSets :
              LET got == List(userInfo, allowed, TRUE)
              IN got.err /\ got.items = Nil

\* the record of alice holds a and b, b is gone from the namespace store,
\* the group dev gives a: List for alice in dev returns a alone, and
\* nothing under a scope that shows only b
C4_Witness ==
    /\ NamespacesOfSubject(userSubjectRecordStore, "alice") = {"a", "b"}
    /\ NamespacesOfSubject(groupSubjectRecordStore, "dev") = {"a"}
    /\ "b" \notin DOMAIN namespaceStore
    /\ NamesOf(List([name |-> "alice", groups |-> {"dev"}], {"*"},
                    FALSE).items) = {"a"}
    /\ List([name |-> "bob", groups |-> {"dev"}], {"b"}, FALSE).items = <<>>

\* the namespaces among those listed for which the Reviewer names the subject
Granted(listed, field, subject) ==
    {n \in listed : subject \in reviewer[n][field]}

\* the store holds, for each subject, the namespaces granted and no record
\* for a subject granted none
Inverts(subjectRecordStore, subjects, listed, field) ==
    \A s \in subjects :
        /\ NamespacesOfSubject(subjectRecordStore, s) =
               Granted(listed, field, s)
        /\ s \in DOMAIN subjectRecordStore <=> Granted(listed, field, s) # {}

\* what the bootstrap leaves in the live stores, and what List then returns
\* to a user under a scope that shows everything
BootstrapResult(listed) ==
    /\ Inverts(userSubjectRecordStore, Users, listed, "users")
    /\ Inverts(groupSubjectRecordStore, Groups, listed, "groups")
    /\ \A userInfo \in UserInfos :
          NamesOf(List(userInfo, {"*"}, FALSE).items) =
              Granted(listed, "users", userInfo.name) \cup
              UNION {Granted(listed, "groups", g) : g \in userInfo.groups}

\* C5: when a cycle that began on empty stores (the first cycle, or a full
\* rebuild) completes and the Reviewer returned no error in it, the user
\* record of each subject is exactly the listed namespaces for which the
\* Reviewer names it (likewise for groups), subjects named for none have
\* no record, and List returns those namespaces.
C5_Bootstrap ==
    [][(CycleCompleted /\ startedEmpty /\ failedInTick = {}) =>
           /\ allKnownNamespaces' = newKnownNamespaces
           /\ BootstrapResult(allKnownNamespaces)']_vars

\* the first cycle has completed after Run, without Reviewer error:
\* alice holds a and b, bob holds b, and the cache is ready
C5_Witness ==
    /\ pc = "idle"
    /\ cycles = 1
    /\ startedEmpty
    /\ failedInTick = {}
    /\ allKnownNamespaces = {"a", "b"}
    /\ NamespacesOfSubject(userSubjectRecordStore, "alice") = {"a", "b"}
    /\ NamespacesOfSubject(userSubjectRecordStore, "bob") = {"b"}
    /\ ReadyForAccess

\* C6: ReadyForAccess is false as long as Run has not been called, whatever
\* cycles complete before; it turns true only when a cycle completes after
\* Run, and does so at the first such cycle; once true it stays true.
C6_ReadinessLifecycle ==
    [][/\ ~running => ~ReadyForAccess
       /\ ~running' => ~ReadyForAccess'
       /\ (~ReadyForAccess /\ ReadyForAccess') => (CycleCompleted /\ running)
       /\ (CycleCompleted /\ running) => ReadyForAccess'
       /\ ReadyForAccess => ReadyForAccess']_vars

\* the cache is ready and a later cycle, not skipped, is about to end
C6_Witness ==
    /\ pc = "finish"
    /\ running
    /\ ReadyForAccess
    /\ cycles = 2

\* a tick begins after Run with the composite version token equal to
\* lastState
TickWithUnchangedToken ==
    /\ pc = "idle"
    /\ cycles' = cycles + 1
    /\ skip = "stateless"
    /\ Join(VersionTokens, <<",">>) = lastState

\* C7: a cycle whose composite version token equals lastState returns at
\* once: no Reviewer call, no watcher notification, no fresh store, and
\* lastState, allKnownNamespaces, the cluster version sets, the three live
\* stores and the watcher list are unchanged.
C7_SkippedCycleIsNoOp ==
    [][TickWithUnchangedToken =>
           /\ pc' = "idle"
           /\ reviewedInTick' = {}
           /\ calls' = NoCalls
           /\ received' = ZeroReceived
           /\ UNCHANGED <<lastState, allKnownNamespaces, clusterVersionVars,
                          liveStoreVars, invalidate, fresh, watchers>>]_vars

\* the second tick was skipped: the Reviewer failed in the first cycle, no
\* event followed, and the second tick did not ask the Reviewer
C7_Witness ==
    /\ pc = "idle"
    /\ cycles = 2
    /\ events = 0
    /\ running
    /\ Join(VersionTokens, <<",">>) = lastState
    /\ failedBefore # {}
    /\ reviewedInTick = {}
    /\ DOMAIN reviewRecordStore # {}

\* C8: a namespace for which the Reviewer returned an error during a cycle,
\* and which the namespace store still holds, has its review attempted
\* again in the next tick of the reconciler, whatever the upstream version
\* tokens did in between.
C8_RetryAtNextTick ==
    (pc = "idle" /\ cycles >= 2) =>
        (failedBefore \cap DOMAIN namespaceStore) \subseteq reviewedInTick


\* what the stores hold about one namespace: its review record and the
\* users and groups whose records name it
RecordsOf(stores, namespace) ==
    [review |-> lastKnown(stores.review, namespace),
     users  |-> SubjectsOf(stores.user, namespace),
     groups |-> SubjectsOf(stores.group, namespace)]

\* a step of a pass in which the Reviewer returned an error
ReviewFailed ==
    /\ pc \in {"namespaces", "policies", "policyBindings"}
    /\ todo' # todo
    /\ lastErr' = "review"

\* C9: a syncRequest whose Review returned an error leaves the working user,
\* group and review stores as they were and notifies no watcher; the pass
\* keeps every other request it had still to process; and when the passes
\* and the purge are over, every listed namespace has a review record or had
\* its Review fail, and every namespace whose Review did not fail has the
\* review record and the subjects it would have had if no Review of the
\* cycle had failed.
C9_ReviewerErrorIsolation ==
    [][ /\ ReviewFailed =>
            /\ WorkingStores' = WorkingStores
            /\ UNCHANGED liveStoreVars
            /\ calls' = NoCalls
            /\ received' = received
            /\ pc' = pc
            /\ \E request \in todo : /\ request.namespace \in failing
                                     /\ todo' = todo \ {request}
        /\ (pc = "policyBindings" /\ pc' = "finish") =>
            /\ \A n \in newKnownNamespaces' :
                   \/ n \in DOMAIN WorkingStores'.review
                   \/ n \in failedInTick'
            /\ \A n \in Namespaces \ failedInTick' :
                   RecordsOf(WorkingStores', n) = RecordsOf(unfailed', n)
      ]_vars

\* a cycle in which the Review of "a" failed has reached its end, "b" was
\* reviewed and has its record, and the stores differ from those of a cycle
\* without the failure
C9_Witness ==
    /\ pc = "finish"
    /\ failedInTick = {"a"}
    /\ "b" \in reviewedInTick
    /\ "b" \in DOMAIN WorkingStores.review
    /\ WorkingStores # unfailed
    /\ RecordsOf(WorkingStores, "b") = RecordsOf(unfailed, "b")


\* the number of review requests a cycle lists for a namespace: the
\* namespace itself, each policy and each policy binding in it
RequestsFor(namespace) ==
    (IF namespace \in DOMAIN namespaceStore THEN 1 ELSE 0)
    + Cardinality({u \in DOMAIN policies :
                      policies[u].namespace = namespace})
    + Cardinality({u \in DOMAIN policyBindings :
                      policyBindings[u].namespace = namespace})

\* the number of notifications of a namespace the purge of the cycle makes
PurgesFor(namespace) ==
    IF namespace \in PurgeNotified(allKnownNamespaces, DOMAIN namespaceStore)
    THEN 1 ELSE 0

\* C10, as claimed: within one synchronize cycle, each watcher receives
\* GroupMembershipChanged for any given namespace at most once.
C10_AtMostOneNotification ==
    \A w \in Watchers, n \in Namespaces : received[w][n] <= 1

\* C10, as the code has it: within one synchronize cycle a watcher
\* receives, for each entry it has in the watcher list, at most one
\* GroupMembershipChanged for a namespace per review request the cycle lists
\* for that namespace (the namespace itself, each of its policies, each of
\* its policy bindings), and one more from the purge if the namespace was
\* known and is no longer listed.
C10_OneNotificationPerRequest ==
    pc # "idle" =>
        \A w \in Watchers, n \in Namespaces :
            received[w][n] <= MaxWatchers * (RequestsFor(n) + PurgesFor(n))

\* a cycle has notified a watcher of "a" twice: once for the namespace and
\* once for the policy binding in it
C10_Witness ==
    /\ pc = "finish"
    /\ watchers = <<"w1">>
    /\ RequestsFor("a") = 2
    /\ received["w1"]["a"] = 2


\* the GroupMembershipChanged calls of a sequence that tell the watcher that
\* the namespace has no user and no group left
EmptyCalls(made, watcher, namespace) ==
    {i \in 1..Len(made) :
        made[i] = [watcher |-> watcher, namespace |-> namespace,
                   users |-> {}, groups |-> {}]}

\* C11: in a cycle that is not skipped, the purge makes, for every namespace
\* that is in allKnownNamespaces and is not in the set of namespaces the
\* cycle listed, one GroupMembershipChanged call with empty user and group
\* sets to each entry of the watcher list, and makes no call for a
\* namespace that is still listed.
C11_DeletionNotification ==
    [][ (pc = "policyBindings" /\ pc' = "finish") =>
            /\ \A n \in allKnownNamespaces \ newKnownNamespaces :
                   \A w \in Watchers :
                       Cardinality(EmptyCalls(calls', w, n)) =
                       Cardinality({i \in 1..Len(watchers) :
                                       watchers[i] = w})
            /\ \A i \in 1..Len(calls') :
                   /\ calls'[i].namespace \notin newKnownNamespaces
                   /\ calls'[i].namespace \in allKnownNamespaces
      ]_vars

\* the purge has told the watcher that "b", known before and no longer
\* listed, is gone, and has said nothing of "a", which is still listed
C11_Witness ==
    /\ pc = "finish"
    /\ allKnownNamespaces = {"a", "b"}
    /\ newKnownNamespaces = {"a"}
    /\ watchers = <<"w1">>
    /\ calls = <<[watcher |-> "w1", namespace |-> "b",
                  users |-> {}, groups |-> {}]>>


\* the passes and the purge of an incremental cycle are over
IncrementalCycleBuilt ==
    /\ pc = "policyBindings"
    /\ pc' = "finish"
    /\ ~invalidate

\* C14: a cycle run in incremental mode ends with the user, group and
\* review stores that the same cycle, run as a full rebuild over the same
\* upstream state, would have built.
C14_RebuildEqualsIncremental ==
    [][IncrementalCycleBuilt => WorkingStores' = rebuilt']_vars


\* synchronize goes past the skip test and invalidateCache, no lister failing
CycleBeginsWithoutListerError ==
    /\ pc = "idle"
    /\ pc' = "namespaces"
    /\ listerErrors = {}

\* C16: with no lister error, a cycle that is not skipped is a full rebuild
\* exactly when the cluster policy resource versions or the cluster policy
\* binding resource versions it lists differ from those the cycle before
\* listed, and after invalidateCache the stored cluster policy set is the
\* set of cluster policy versions just listed and the stored cluster
\* binding set is the set of cluster binding versions just listed.
C16_RebuildExactlyOnClusterChange ==
    [][ CycleBeginsWithoutListerError =>
            /\ invalidate' <=>
                   \/ clusterPolicies # listedBefore.policy
                   \/ clusterPolicyBindings # listedBefore.binding
            /\ clusterPolicyResourceVersions' = clusterPolicies
            /\ clusterBindingResourceVersions' = clusterPolicyBindings
      ]_vars


\* C17: in a full-rebuild cycle, from the start of the cycle until the
\* swap, no step changes what the live user, group and review stores hold
\* (the passes and the purge write to the fresh stores), and the swap makes
\* the fresh stores the live ones.
C17_RebuildLeavesLiveStores ==
    [][ /\ (invalidate' /\ pc' # "idle") => UNCHANGED liveStoreVars
        /\ (invalidate /\ pc = "finish" /\ pc' = "idle") =>
               LiveStores' = fresh
      ]_vars

\* a full rebuild has built its stores beside live stores that still hold
\* what the cycle before left in them
C17_Witness ==
    /\ pc = "finish"
    /\ invalidate
    /\ fresh # NewStores
    /\ LiveStores # NewStores
    /\ fresh # LiveStores


\* the step is the syncHandler call of a pass for the request
Dispatched(request) ==
    /\ pc \in {"namespaces", "policies", "policyBindings"}
    /\ request \in todo
    /\ todo' = todo \ {request}

\* syncRequest for the request, on the working stores, goes as far as the
\* review and the Reviewer returns no error
PerformsReview(request) ==
    /\ ~skipReview(request, lastKnown(WorkingStores.review, request.namespace))
    /\ request.namespace \notin failing

\* C19: after a syncRequest that performed the review of namespace n, the
\* users whose subject record contains n are exactly review.users and the
\* groups whose record contains n are exactly review.groups; every subject
\* of lastKnown.users minus review.users, and of lastKnown.groups minus
\* review.groups, has lost n; and for every other namespace m the
\* membership of m in every subject record and the review record of m are
\* as they were.
C19_SyncRequestPostcondition ==
    [][ \A request \in todo :
          (Dispatched(request) /\ PerformsReview(request)) =>
              LET n == request.namespace
                  review == reviewer[n]
                  old == lastKnown(WorkingStores.review, n)
              IN /\ SubjectsOf(WorkingStores'.user, n) = review.users
                 /\ SubjectsOf(WorkingStores'.group, n) = review.groups
                 /\ old # Nil =>
                        /\ \A s \in old.users \ review.users :
                               n \notin NamespacesOfSubject(
                                            WorkingStores'.user, s)
                        /\ \A s \in old.groups \ review.groups :
                               n \notin NamespacesOfSubject(
                                            WorkingStores'.group, s)
                 /\ \A m \in Namespaces \ {n} :
                        /\ SubjectsOf(WorkingStores'.user, m) =
                           SubjectsOf(WorkingStores.user, m)
                        /\ SubjectsOf(WorkingStores'.group, m) =
                           SubjectsOf(WorkingStores.group, m)
                        /\ lastKnown(WorkingStores'.review, m) =
                           lastKnown(WorkingStores.review, m)
      ]_vars

\* a syncRequest has reviewed "a" again and taken it from a user who had
\* it, while "b" keeps its users
C19_Witness ==
    /\ pc \in {"namespaces", "policies", "policyBindings"}
    /\ lastErr = ""
    /\ "a" \in reviewedInTick
    /\ SubjectsOf(before.user, "a") \ SubjectsOf(WorkingStores.user, "a") # {}
    /\ SubjectsOf(WorkingStores.user, "a") = reviewer["a"].users
    /\ SubjectsOf(WorkingStores.user, "b") # {}
    /\ SubjectsOf(WorkingStores.user, "b") = SubjectsOf(before.user, "b")


\* the entries of the map: those of kept, overlaid with those of requested
Accumulates(map, kept, requested) ==
    /\ DOMAIN map = (DOMAIN kept) \cup (DOMAIN requested)
    /\ \A u \in DOMAIN requested : map[u] = requested[u]
    /\ \A u \in (DOMAIN kept) \ (DOMAIN requested) : map[u] = kept[u]

\* C20: the record cacheReviewRecord writes for namespace n holds every
\* policy UID and binding UID entry of lastKnown overlaid with the entries
\* of the request, and its namespace resource version is the request's when
\* that is not empty and lastKnown's otherwise; and over the syncHandler
\* calls on a store, no record loses a UID entry, and the namespace resource
\* version of a record changes only to that of a request that carries one.
C20_VersionAccumulation ==
    [][ \A request \in todo :
          Dispatched(request) =>
              LET n == request.namespace
                  old == lastKnown(WorkingStores.review, n)
                  new == lastKnown(WorkingStores'.review, n)
              IN /\ PerformsReview(request) =>
                        /\ new # Nil
                        /\ Accumulates(
                               new.policyUIDToResourceVersion,
                               IF old = Nil THEN EmptyMap
                               ELSE old.policyUIDToResourceVersion,
                               request.policyUIDToResourceVersion)
                        /\ Accumulates(
                               new.policyBindingUIDToResourceVersion,
                               IF old = Nil THEN EmptyMap
                               ELSE old.policyBindingUIDToResourceVersion,
                               request.policyBindingUIDToResourceVersion)
                        /\ new.namespaceResourceVersion =
                               IF request.namespaceResourceVersion # ""
                               THEN request.namespaceResourceVersion
                               ELSE IF old = Nil THEN ""
                               ELSE old.namespaceResourceVersion
                 /\ \A m \in DOMAIN WorkingStores.review :
                        LET was == WorkingStores.review[m]
                            is == lastKnown(WorkingStores'.review, m)
                        IN /\ is # Nil
                           /\ DOMAIN was.policyUIDToResourceVersion \subseteq
                              DOMAIN is.policyUIDToResourceVersion
                           /\ DOMAIN was.policyBindingUIDToResourceVersion
                                  \subseteq
                              DOMAIN is.policyBindingUIDToResourceVersion
                           /\ is.namespaceResourceVersion #
                                  was.namespaceResourceVersion =>
                                  /\ m = n
                                  /\ request.namespaceResourceVersion # ""
                                  /\ is.namespaceResourceVersion =
                                     request.namespaceResourceVersion
      ]_vars

\* a syncRequest for a policy binding has written a record that keeps the
\* namespace resource version and the policy entry it had and gains the
\* binding entry
C20_Witness ==
    /\ pc = "policyBindings"
    /\ \E n \in DOMAIN WorkingStores.review \cap DOMAIN before.review :
          /\ before.review[n].namespaceResourceVersion # ""
          /\ "p1" \in DOMAIN before.review[n].policyUIDToResourceVersion
          /\ "b1" \notin
                 DOMAIN before.review[n].policyBindingUIDToResourceVersion
          /\ WorkingStores.review[n].namespaceResourceVersion =
                 before.review[n].namespaceResourceVersion
          /\ WorkingStores.review[n].policyUIDToResourceVersion =
                 before.review[n].policyUIDToResourceVersion
          /\ "b1" \in
                 DOMAIN WorkingStores.review[n].policyBindingUIDToResourceVersion


\* the indices of the entries of the list that are the watcher
EntriesOf(watcherList, watcher) ==
    {i \in 1..Len(watcherList) : watcherList[i] = watcher}

\* the list without its entry i
WithoutEntry(watcherList, i) ==
    [j \in 1..(Len(watcherList) - 1) |->
        IF j < i THEN watcherList[j] ELSE watcherList[j + 1]]

Satisfied(request, lastKnownValue) ==
    /\ request.namespace = lastKnownValue.namespace
    /\ request.namespaceResourceVersion # "" =>
           request.namespaceResourceVersion =
               lastKnownValue.namespaceResourceVersion
    /\ \A u \in DOMAIN request.policyUIDToResourceVersion :
           /\ u \in DOMAIN lastKnownValue.policyUIDToResourceVersion
           /\ lastKnownValue.policyUIDToResourceVersion[u] =
                  request.policyUIDToResourceVersion[u]
    /\ \A u \in DOMAIN request.policyBindingUIDToResourceVersion :
           /\ u \in DOMAIN lastKnownValue.policyBindingUIDToResourceVersion
           /\ lastKnownValue.policyBindingUIDToResourceVersion[u] =
                  request.policyBindingUIDToResourceVersion[u]

\* C18, as claimed: skipReview returns true if and only if the request is
\* not nil, lastKnown is not nil, the namespaces match, a non-empty
\* namespace resource version of the request is the stored one, and every
\* policy and binding entry of the request is stored with the same version.
C18_SkipReviewIff ==
    call.op = "skipReview" =>
        (call.result <=>
            /\ call.request # Nil
            /\ call.lastKnownValue # Nil
            /\ Satisfied(call.request, call.lastKnownValue))

\* C18, as the code has it: skipReview returns true if and only if the
\* request is nil, or lastKnown is not nil, the namespaces match, a
\* non-empty namespace resource version of the request is the stored one,
\* and every policy and binding entry of the request is stored with the
\* same version.
C18_SkipReviewIffOrNilRequest ==
    call.op = "skipReview" =>
        (call.result <=>
            \/ call.request = Nil
            \/ /\ call.lastKnownValue # Nil
               /\ Satisfied(call.request, call.lastKnownValue))

\* skipReview was applied to a nil request and returned true
C18_Witness ==
    /\ call.op = "skipReview"
    /\ call.request = Nil
    /\ call.lastKnownValue = Nil
    /\ call.result


\* C12: the three live store handles are replaced as one step, so the
\* handles are always of one generation, and a List call that runs beside
\* synchronize reads the user store and the group stores through handles of
\* one generation.
C12_AtomicSwap ==
    /\ generation.user = generation.group
    /\ generation.group = generation.review
    /\ list.pc # "idle" =>
           \A g \in list.groupGenerations : g = list.userGeneration

\* C13: a List call that runs beside synchronize never finds, in the live
\* user store or group store, a subject record whose namespaces are none.
C13_ReaderNeverFindsEmptyRecord ==
    list.pc # "idle" => ~list.emptyRecord


\* the review with its evaluation error taken away
Clean(review) == [review EXCEPT !.evaluationError = ""]

\* an evaluation error was returned in the cycle that is at its end
EvaluationErrorInCycle ==
    \E n \in reviewedInTick \ failedInTick : reviewer[n].evaluationError # ""

\* C21: when the Reviewer returns a review with no error and a non-empty
\* EvaluationError, syncRequest updates the subject stores and the review
\* record and notifies the watchers exactly as for the same review without
\* the evaluation error, and returns the evaluation error; the pass keeps
\* its other requests, and the cycle ends with lastState set to the token
\* computed at its beginning.
C21_EvaluationErrorStillCommits ==
    [][ /\ \A request \in todo :
              (/\ Dispatched(request)
               /\ PerformsReview(request)
               /\ reviewer[request.namespace].evaluationError # "") =>
                  LET n == request.namespace
                      clean == syncRequest(request, WorkingStores,
                                           Clean(reviewer[n]), FALSE, watchers)
                  IN /\ clean.reviewed
                     /\ clean.err = ""
                     /\ WorkingStores' = clean.stores
                     /\ calls' = clean.calls
                     /\ Len(calls') = Len(watchers)
                     /\ lastKnown(WorkingStores'.review, n).users =
                            reviewer[n].users
                     /\ lastErr' = reviewer[n].evaluationError
                     /\ pc' = pc
        /\ (CycleCompleted /\ EvaluationErrorInCycle) =>
              /\ lastState' = currentState
              /\ skip = "stateless" =>
                     lastState' = Join(VersionTokens, <<",">>)
      ]_vars

\* a cycle after Run has ended in which the Reviewer returned, for some
\* namespace, the review of bob with an evaluation error: bob has the
\* namespace, the review record names bob, the watcher was told and
\* lastState is the token of the cycle
C21_Witness ==
    /\ pc = "idle"
    /\ running
    /\ watchers = <<"w1">>
    /\ lastState # <<>>
    /\ \E n \in reviewedInTick \ failedInTick :
          /\ reviewer[n].evaluationError = "denied"
          /\ n \in DOMAIN reviewRecordStore
          /\ reviewRecordStore[n].users = {"bob"}
          /\ SubjectsOf(userSubjectRecordStore, n) = {"bob"}
          /\ received["w1"][n] >= 1


\* C22: the namespace pass lists the names of the namespace store; at the
\* end of every cycle that was not skipped allKnownNamespaces is the set of
\* those names, and every record of the live review store is kept under
\* the name of its namespace, which is a member of allKnownNamespaces.
C22_NamespaceLiveness ==
    [][ /\ (pc = "idle" /\ pc' = "namespaces") =>
              newKnownNamespaces' = DOMAIN namespaceStore
        /\ (pc # "idle" /\ pc' # "idle") => UNCHANGED newKnownNamespaces
        /\ CycleCompleted =>
              /\ allKnownNamespaces' = newKnownNamespaces
              /\ DOMAIN reviewRecordStore' \subseteq allKnownNamespaces'
              /\ \A n \in DOMAIN reviewRecordStore' :
                     reviewRecordStore'[n].namespace = n
      ]_vars

\* a cycle has ended in which the policy of "b", a namespace the namespace
\* store does not hold, was reviewed: "b" has no review record and is not
\* known, "a" is known and has its record
C22_Witness ==
    /\ pc = "idle"
    /\ cycles >= 1
    /\ DOMAIN namespaceStore = {"a"}
    /\ \E u \in DOMAIN policies : policies[u].namespace = "b"
    /\ "b" \in reviewedInTick \ failedInTick
    /\ allKnownNamespaces = {"a"}
    /\ DOMAIN reviewRecordStore = {"a"}


\* the tokens in order, with a comma between each two neighbours
RECURSIVE CommaJoined(_)
CommaJoined(tokens) ==
    IF Len(tokens) = 0 THEN <<>>
    ELSE IF Len(tokens) = 1 THEN tokens[1]
    ELSE CommaJoined(SubSeq(tokens, 1, Len(tokens) - 1)) \o <<",">> \o
         tokens[Len(tokens)]

\* C23: the never-skip synchronizer is in force from construction until
\* Run, the stateless one from Run on.  The stateless SkipSynchronize
\* returns as currentState the version tokens of its sources in argument
\* order joined with commas, and skip exactly when currentState equals
\* prevState; the never-skip one returns skip = false for every input.
\* Neither changes anything of the cache.
C23_SkipOracle ==
    /\ running <=> (skip = "stateless")
    /\ call.op = "SkipSynchronize" =>
          /\ call.ran =>
                /\ call.result[2] = CommaJoined(call.tokens)
                /\ call.result[1] = (call.result[2] = call.prevState)
          /\ ~call.ran => call.result[1] = FALSE
          /\ allKnownNamespaces = {}
          /\ LiveStores = NewStores
          /\ lastState = <<>>
          /\ clusterPolicyResourceVersions = {}
          /\ clusterBindingResourceVersions = {}
          /\ watchers = <<>>

\* after Run, SkipSynchronize was called with the tokens 1 and 2 and the
\* prevState "1,2", and said skip
C23_Witness ==
    /\ call.op = "SkipSynchronize"
    /\ call.ran
    /\ call.tokens = <<(<<"1">>), (<<"2">>)>>
    /\ call.prevState = <<"1", ",", "2">>
    /\ call.result = <<TRUE, <<"1", ",", "2">>>>


\* some source's token is not what it was when the last completed cycle read it
SomeTokenChanged ==
    /\ observed.completed # Nil
    /\ \E source \in Sources :
          Token(source) # Decimal(observed.completed[source])

\* C24: after Run, a tick that finds the version token of some source
\* different from what the last completed cycle read is not skipped.
C24_ChangeDetectionComplete ==
    [][(/\ pc = "idle"
        /\ cycles' = cycles + 1
        /\ skip = "stateless"
        /\ SomeTokenChanged) => pc' = "namespaces"]_vars


\* what the live review store says of the namespace: the users and groups
\* of its record, nobody without record
CachedSubjects(n) ==
    IF n \in DOMAIN reviewRecordStore
    THEN [users |-> reviewRecordStore[n].users,
          groups |-> reviewRecordStore[n].groups]
    ELSE [users |-> {}, groups |-> {}]

\* C25: at the end of every completed cycle, for every registered watcher
\* and every namespace the watcher was notified of, the users and groups
\* of the last notification are those of the live review record of the
\* namespace, or are both empty when the namespace has no review record.
C25_WatcherViewAgrees ==
    (pc = "idle" /\ cycles >= 1) =>
        \A i \in 1..Len(watchers), n \in Namespaces :
            observed.notified[watchers[i]][n] # Nil =>
                observed.notified[watchers[i]][n] = CachedSubjects(n)


\* the second cycle is in progress, it is incremental, nothing upstream has
\* changed since construction, so that it lists what the first cycle
\* listed, and no Review and no lister failed in either
SameListingsAgain ==
    /\ pc # "idle"
    /\ cycles = 2
    /\ events = 0
    /\ ~invalidate
    /\ failing = {}
    /\ listerErrors = {}

\* C26: an incremental cycle that follows a completed cycle without error
\* and lists the same namespaces, policies and policy bindings with the
\* same resource versions asks the Reviewer nothing, notifies no watcher
\* and leaves the user, group and review stores as they are, in every one
\* of its steps.
C26_IncrementalCycleIdempotent ==
    [][SameListingsAgain =>
           /\ reviewedInTick' = {}
           /\ calls' = NoCalls
           /\ UNCHANGED liveStoreVars]_vars

=============================================================================
